---- MODULE Spec2Model ----
(***************************************************************************)
(* Range-check elimination pass of the JIT (src/jit/rangecheck.cpp).       *)
(*                                                                         *)
(* The pass walks the bounds checks of a method in program order.  For     *)
(* each check it computes a symbolic Range for the index by a recursion    *)
(* over the SSA def-use graph (GetRange / ComputeRange), asks the overflow *)
(* engine (DoesOverflow), widens under monotonicity (Widen) and finally    *)
(* decides with BetweenBounds whether the check can be removed.            *)
(*                                                                         *)
(* The IR the pass reads (trees, SSA definitions, blocks, value numbers,   *)
(* edge assertions) is input data; it is given below as a fixed family of  *)
(* small methods, each with its control-flow graph, so that the concrete   *)
(* executions of a method can be run against the decisions of the pass.    *)
(***************************************************************************)
EXTENDS Integers, Sequences, FiniteSets, TLC

\* ------------------------------------------------------------------ *\
\* Program constants                                                    *
\* ------------------------------------------------------------------ *\

\* Max stack depth (path length) in walking the UD chain.
MAX_SEARCH_DEPTH == 100

\* Max nodes to visit in the UD chain for the current method being compiled.
MAX_VISIT_BUDGET == 8192

\* Largest array length the CLR allocates.
ARRLEN_MAX == 2147483647

INT_MIN == -ARRLEN_MAX - 1

\* ------------------------------------------------------------------ *\
\* Bounds of the model                                                  *
\* ------------------------------------------------------------------ *\

\* Initial visit budgets tried besides MAX_VISIT_BUDGET: 1..MaxBudget.
MaxBudget == 16

\* Number of bounds checks of a modelled method: 1..MaxChecks.
MaxChecks == 2

\* Largest length tried for an array whose size is not statically known.
MaxLen == 2

\* ------------------------------------------------------------------ *\
\* 32-bit arithmetic                                                    *
\* ------------------------------------------------------------------ *\

IntAddOverflows(a, b) ==
    \/ (a > 0 /\ b > 0 /\ a > ARRLEN_MAX - b)
    \/ (a < 0 /\ b < 0 /\ a < INT_MIN - b)

Min(a, b) == IF a <= b THEN a ELSE b

Max(a, b) == IF a >= b THEN a ELSE b

\* ------------------------------------------------------------------ *\
\* Value numbers (external value-number store)                          *
\* ------------------------------------------------------------------ *\

NoVN == [k |-> "none"]

\* A constant value number of the given type.
CnsVN(t, c) == [k |-> "cns", type |-> t, val |-> c]

\* An opaque (non-constant) value number.
OpqVN(id) == [k |-> "opq", id |-> id]

\* The value number of an array reference.
ArrVN(id) == [k |-> "arr", id |-> id]

\* The value number of the length of an array.
LenVN(id) == [k |-> "len", arr |-> id]

IsVNConstant(vn) == vn.k = "cns"

TypeOfVN(vn) == IF vn.k = "cns" THEN vn.type ELSE "TYP_INT"

ConstantValue(vn) == vn.val

IsVNArrLen(vn) == vn.k = "len"

GetArrForLenVn(vn) == IF vn.k = "len" THEN ArrVN(vn.arr) ELSE NoVN

VNZeroForType == CnsVN("TYP_INT", 0)

\* ------------------------------------------------------------------ *\
\* Limit and Range                                                      *
\* ------------------------------------------------------------------ *\

Limit(type) == [type |-> type, vn |-> NoVN, cns |-> 0]

LimitC(c) == [type |-> "keConstant", vn |-> NoVN, cns |-> c]

LimitV(type, vn, c) == [type |-> type, vn |-> vn, cns |-> c]

IsUndef(l) == l.type = "keUndef"

IsUnknown(l) == l.type = "keUnknown"

IsDependent(l) == l.type = "keDependent"

IsConstant(l) == l.type = "keConstant"

IsArray(l) == l.type = "keArray"

IsBinOpArray(l) == l.type = "keBinOpArray"

\* A Range with both limits equal to the given limit.
Range(l) == [lLimit |-> l, uLimit |-> l]

\* Limit::AddConstant: <<ok, limit>>; the limit is unchanged when not ok.
AddConstant(l, i) ==
    CASE l.type = "keDependent" -> <<TRUE, l>>
      [] l.type \in {"keConstant", "keBinOpArray", "keBinOp"} ->
            IF IntAddOverflows(l.cns, i) THEN <<FALSE, l>>
            ELSE <<TRUE, [l EXCEPT !.cns = l.cns + i]>>
      [] l.type = "keArray" -> <<TRUE, [l EXCEPT !.type = "keBinOpArray", !.cns = i]>>
      [] l.type = "keSsaVar" -> <<TRUE, [l EXCEPT !.type = "keBinOp", !.cns = i]>>
      [] OTHER -> <<FALSE, l>>

\* RangeOps::Add on one pair of matching endpoints.
AddLimit(l1, l2) ==
    CASE IsUnknown(l1) \/ IsUnknown(l2) -> Limit("keUnknown")
      [] IsDependent(l1) \/ IsDependent(l2) -> Limit("keDependent")
      [] IsConstant(l1) ->
            LET r == AddConstant(l2, l1.cns)
            IN  IF r[1] THEN r[2] ELSE Limit("keUnknown")
      [] IsConstant(l2) ->
            LET r == AddConstant(l1, l2.cns)
            IN  IF r[1] THEN r[2] ELSE Limit("keUnknown")
      [] OTHER -> Limit("keUnknown")

RangeAdd(r1, r2) ==
    [lLimit |-> AddLimit(r1.lLimit, r2.lLimit),
     uLimit |-> AddLimit(r1.uLimit, r2.uLimit)]

\* RangeOps::Merge on one pair of endpoints; lower = TRUE takes the meet
\* (the smaller constant), lower = FALSE the join (the larger constant).
MergeLimit(l1, l2, monotonic, lower) ==
    CASE IsUnknown(l1) \/ IsUnknown(l2) -> Limit("keUnknown")
      [] IsUndef(l1) -> l2
      [] IsDependent(l1) \/ IsDependent(l2) ->
            IF monotonic THEN (IF IsDependent(l1) THEN l2 ELSE l1)
            ELSE Limit("keDependent")
      [] l1.type = l2.type /\ l1.vn = l2.vn ->
            [l1 EXCEPT !.cns = IF lower THEN Min(l1.cns, l2.cns)
                                         ELSE Max(l1.cns, l2.cns)]
      [] OTHER -> Limit("keUnknown")

RangeMerge(r1, r2, monotonic) ==
    [lLimit |-> MergeLimit(r1.lLimit, r2.lLimit, monotonic, TRUE),
     uLimit |-> MergeLimit(r1.uLimit, r2.uLimit, monotonic, FALSE)]

\* ------------------------------------------------------------------ *\
\* The IR read by the pass: trees, SSA definitions, blocks, assertions   *
\* ------------------------------------------------------------------ *\

NoTree == <<"", "">>

NoBlock == <<"", "">>

NoSsa == <<"", "">>

\* Tree nodes.  ssa is the SSA name of a local ("" for other nodes), pred
\* the predecessor block of a phi argument.
Tree(oper, type, vn, ssa, op1, op2, args, pred, icon) ==
    [oper |-> oper, type |-> type, vn |-> vn, ssa |-> ssa, op1 |-> op1,
     op2 |-> op2, args |-> args, pred |-> pred, icon |-> icon]

TCns(c) ==
    Tree("GT_CNS_INT", "TYP_INT", CnsVN("TYP_INT", c), NoSsa, NoTree, NoTree, <<>>, NoBlock, c)

TLcl(ssa, vn) ==
    Tree("GT_LCL_VAR", "TYP_INT", vn, ssa, NoTree, NoTree, <<>>, NoBlock, 0)

TPhiArg(ssa, vn, pred) ==
    Tree("GT_PHI_ARG", "TYP_INT", vn, ssa, NoTree, NoTree, <<>>, pred, 0)

TAdd(op1, op2, vn) ==
    Tree("GT_ADD", "TYP_INT", vn, NoSsa, op1, op2, <<>>, NoBlock, 0)

TPhi(args, vn) ==
    Tree("GT_PHI", "TYP_INT", vn, NoSsa, NoTree, NoTree, args, NoBlock, 0)

TCall(vn) ==
    Tree("GT_CALL", "TYP_INT", vn, NoSsa, NoTree, NoTree, <<>>, NoBlock, 0)

TArrLen(vn) ==
    Tree("GT_ARR_LENGTH", "TYP_INT", vn, NoSsa, NoTree, NoTree, <<>>, NoBlock, 0)

AsLong(t) ==
    [t EXCEPT !.type = "TYP_LONG",
              !.vn = IF t.vn.k = "cns" THEN CnsVN("TYP_LONG", t.vn.val) ELSE t.vn]

\* Assertions of the three recognised shapes; kind is OAK_EQUAL (the
\* predicate is false on the edge) or OAK_NOT_EQUAL (it is true).
Assertion(shape, cmpOp, cmpOper, vnArray, arrOper, arrOp, constVal, kind) ==
    [shape |-> shape, cmpOp |-> cmpOp, cmpOper |-> cmpOper, vnArray |-> vnArray,
     arrOper |-> arrOper, arrOp |-> arrOp, constVal |-> constVal,
     assertionKind |-> kind, op2 |-> VNZeroForType]

AConstantBound(cmpOp, cmpOper, c, kind) ==
    Assertion("ConstantBound", cmpOp, cmpOper, NoVN, "GT_NONE", NoVN, c, kind)

AArrLenBound(cmpOp, cmpOper, arr, kind) ==
    Assertion("ArrLenBound", cmpOp, cmpOper, ArrVN(arr), "GT_NONE", NoVN, 0, kind)

AArrLenArithBound(cmpOp, cmpOper, arr, arrOper, arrOp, kind) ==
    Assertion("ArrLenArithBound", cmpOp, cmpOper, ArrVN(arr), arrOper, arrOp, 0, kind)

\* Basic blocks.  stmts and cond give the block its run-time meaning;
\* the three assertion sets are what assertion propagation left on it.
Block(stmts, kind, dest, next, cond, ain, aout, jtrue) ==
    [stmts |-> stmts, bbJumpKind |-> kind, bbJumpDest |-> dest, bbNext |-> next,
     cond |-> cond, bbAssertionIn |-> ain, bbAssertionOut |-> aout,
     bbJtrueAssertionOut |-> jtrue]

SAsg(ssa) == [t |-> "asg", ssa |-> ssa, chk |-> ""]

SChk(id) == [t |-> "chk", ssa |-> NoSsa, chk |-> id]

\* Branch condition "ssa oper bound", bound = c, or length of arr plus c.
Cond(ssa, oper, arr, c) == [ssa |-> ssa, oper |-> oper, arr |-> arr, c |-> c]

NoCond == Cond(NoSsa, "GT_NONE", "", 0)

\* Location of the definition of an SSA name: the assignment node.
Def(block, asg, op1, op2) == [block |-> block, asg |-> asg, op1 |-> op1, op2 |-> op2]

\* Arrays: the size given to "new", 0 when not statically known.
NewArrSize ==
    ("A5" :> 5) @@ ("A2" :> 2) @@ ("K3" :> 3) @@ ("P" :> 0)

\* Arrays whose length value numbering has folded to a constant.
ConstLenArrays == {"K3"}

\* The value number of the array-length operand of a check on arr.
ArrLenVN(arr) ==
    IF arr \in ConstLenArrays THEN CnsVN("TYP_INT", NewArrSize[arr]) ELSE LenVN(arr)

Arrays == DOMAIN NewArrSize

\* ------------------------------------------------------------------ *\
\* The methods analysed.  Each fragment is a piece of a method holding   *
\* one bounds check; a method is a sequence of fragments.                *
\*   shape "k"    : a[c0]                                                *
\*   shape "phi"  : i = (input >= 1) ? c1 : c0;                          *
\*                  [if (i >= 0 && i < glim-or-a.len)]  a[i + add]       *
\*   shape "loop" : for (i = c0; i < glim-or-a.len; i += step) a[i]      *
\* guard is "none", "cns" (the bound is the constant glim) or "len"      *
\* (the bound is the length of arr).                                     *
\* ------------------------------------------------------------------ *\

Desc(shape, c0, c1, step, arr, guard, glim, add, long) ==
    [shape |-> shape, c0 |-> c0, c1 |-> c1, step |-> step, arr |-> arr,
     guard |-> guard, glim |-> glim, add |-> add, long |-> long]

Frag ==
    ("f1"  :> Desc("k",    2, 0, 0, "A5", "none", 0, 0, FALSE)) @@
    ("f2"  :> Desc("k",    5, 0, 0, "A5", "none", 0, 0, FALSE)) @@
    ("f3"  :> Desc("k",    1, 0, 0, "K3", "none", 0, 0, FALSE)) @@
    ("f4"  :> Desc("k",   -1, 0, 0, "A5", "none", 0, 0, FALSE)) @@
    ("fl"  :> Desc("k",    2, 0, 0, "A5", "none", 0, 0, TRUE))  @@
    ("pc"  :> Desc("phi",  0, 1, 0, "A2", "none", 0, 0, FALSE)) @@
    ("lg"  :> Desc("phi",  0, 1, 0, "A2", "cns",  2, 0, TRUE))  @@
    ("gc"  :> Desc("phi",  0, 3, 0, "A2", "cns",  2, 0, FALSE)) @@
    ("ov"  :> Desc("phi",  0, 1, 0, "P",  "len",  0, 2, FALSE)) @@
    ("inc" :> Desc("loop", 0, 0, 1, "P",  "len",  0, 0, FALSE)) @@
    ("cl"  :> Desc("loop", 0, 0, 1, "A2", "cns",  3, 0, FALSE))

Frags == DOMAIN Frag

\* The scenario methods.
\*   shape "g"    : i = call(); if (i >= 0 && i < a.len) a[i]
\*   shape "down" : for (i = a.len - 1; i >= 0; i += step) a[i]
\*   shape "nest" : for (i = 0; i < a.len; i++)
\*                      for (j = 0; j < a.len; j++) a[i + j]
\* and loops of shape "loop" with a negative step; guard "ge0" is the
\* test i >= 0.  In "dl" the step is read from a local s = -1 whose
\* value number is the constant:
\*   s = -1; for (i = 3; i < a.len; i += s) a[i]
\* In "par" and "pun" the index is a parameter of the method, a local
\* without a definition in the method:
\*   par : if (i >= 0 && i < a.len) a[i]
\*   pun : a[i], no assertion about i
Scenario ==
    ("g"    :> Desc("g",    0, 0,  0, "P",  "len", 0, 0, FALSE)) @@
    ("down" :> Desc("down", 0, 0, -1, "P",  "ge0", 0, 0, FALSE)) @@
    ("dc"   :> Desc("loop", 1, 0, -1, "A2", "ge0", 0, 0, FALSE)) @@
    ("dn"   :> Desc("loop", 0, 0, -1, "A2", "cns", 3, 0, FALSE)) @@
    ("dl"   :> Desc("loop", 3, 0, -1, "P",  "len", 0, 0, FALSE)) @@
    ("par"  :> Desc("g",    0, 0,  0, "P",  "len", 0, 0, FALSE)) @@
    ("pun"  :> Desc("g",    0, 0,  0, "P",  "none", 0, 0, FALSE)) @@
    ("sum"  :> Desc("nest", 0, 0,  1, "P",  "len", 0, 0, FALSE))

Scenarios == DOMAIN Scenario

DescOf(f) == IF f \in Frags THEN Frag[f] ELSE Scenario[f]

\* The fragments whose step operand is a GT_LCL_VAR.
StepInLocal == {"dl"}

\* The fragments whose index is a parameter: it has no entry in the
\* definition table.
Parameters == {"par", "pun"}

\* Value number of an SSA name: a constant where the definition is one.
FragSsaVN(d, s) ==
    CASE s[2] = "i1" /\ d.shape = "down" -> OpqVN(s)
      [] s[2] = "s" -> CnsVN("TYP_INT", d.step)
      [] s[2] \in {"i1", "j1"} -> CnsVN(IF d.long THEN "TYP_LONG" ELSE "TYP_INT", d.c0)
      [] s[2] = "i2" /\ d.shape = "phi" ->
            CnsVN(IF d.long THEN "TYP_LONG" ELSE "TYP_INT", d.c1)
      [] OTHER -> OpqVN(s)

SsaVN(s) == FragSsaVN(DescOf(s[1]), s)

Typed(d, t) == IF d.long THEN AsLong(t) ELSE t

\* The tree with the given identity <<fragment, name>>.
FragNode(f, d, x) ==
    CASE d.shape = "k" -> Typed(d, TCns(d.c0))
      [] d.shape = "phi" ->
         (CASE x = "call" -> TCall(OpqVN(<<f, "x">>))
            [] x = "c0" -> Typed(d, TCns(d.c0))
            [] x = "c1" -> Typed(d, TCns(d.c1))
            [] x = "A1" ->
                  Typed(d, TPhiArg(<<f, "i1">>, FragSsaVN(d, <<f, "i1">>), <<f, "B1">>))
            [] x = "A2" ->
                  Typed(d, TPhiArg(<<f, "i2">>, FragSsaVN(d, <<f, "i2">>), <<f, "B2">>))
            [] x = "P"  -> Typed(d, TPhi(<<<<f, "A1">>, <<f, "A2">>>>, OpqVN(<<f, "i3">>)))
            [] x = "u"  -> Typed(d, TLcl(<<f, "i3">>, OpqVN(<<f, "i3">>)))
            [] x = "k"  -> TCns(d.add)
            [] x = "add" -> TAdd(<<f, "u">>, <<f, "k">>, OpqVN(<<f, "add">>)))
      [] d.shape = "g" ->
         (CASE x = "call" -> TCall(OpqVN(<<f, "x">>))
            [] x = "u"  -> TLcl(<<f, "x">>, OpqVN(<<f, "x">>)))
      [] d.shape = "nest" ->
         (CASE x = "c0"  -> TCns(d.c0)
            [] x = "Ai1" -> TPhiArg(<<f, "i1">>, FragSsaVN(d, <<f, "i1">>), <<f, "B0">>)
            [] x = "Ai3" -> TPhiArg(<<f, "i3">>, OpqVN(<<f, "i3">>), <<f, "B5">>)
            [] x = "Pi"  -> TPhi(<<<<f, "Ai1">>, <<f, "Ai3">>>>, OpqVN(<<f, "i2">>))
            [] x = "ui"  -> TLcl(<<f, "i2">>, OpqVN(<<f, "i2">>))
            [] x = "ui2" -> TLcl(<<f, "i2">>, OpqVN(<<f, "i2">>))
            [] x = "ki"  -> TCns(d.step)
            [] x = "addi" -> TAdd(<<f, "ui2">>, <<f, "ki">>, OpqVN(<<f, "i3">>))
            [] x = "d0"  -> TCns(d.c0)
            [] x = "Aj1" -> TPhiArg(<<f, "j1">>, FragSsaVN(d, <<f, "j1">>), <<f, "B2">>)
            [] x = "Aj3" -> TPhiArg(<<f, "j3">>, OpqVN(<<f, "j3">>), <<f, "B4">>)
            [] x = "Pj"  -> TPhi(<<<<f, "Aj1">>, <<f, "Aj3">>>>, OpqVN(<<f, "j2">>))
            [] x = "uj"  -> TLcl(<<f, "j2">>, OpqVN(<<f, "j2">>))
            [] x = "uj2" -> TLcl(<<f, "j2">>, OpqVN(<<f, "j2">>))
            [] x = "kj"  -> TCns(d.step)
            [] x = "addj" -> TAdd(<<f, "uj2">>, <<f, "kj">>, OpqVN(<<f, "j3">>))
            [] x = "idx" -> TAdd(<<f, "ui">>, <<f, "uj">>, OpqVN(<<f, "idx">>)))
      [] d.shape \in {"loop", "down"} ->
         (CASE x = "c0" /\ d.shape = "down" ->
                  TAdd(<<f, "len">>, <<f, "m1">>, OpqVN(<<f, "i1">>))
            [] x = "len" -> TArrLen(ArrLenVN(d.arr))
            [] x = "m1" -> TCns(-1)
            [] x = "c0" -> TCns(d.c0)
            [] x = "A1" -> TPhiArg(<<f, "i1">>, FragSsaVN(d, <<f, "i1">>), <<f, "B0">>)
            [] x = "A3" -> TPhiArg(<<f, "i3">>, OpqVN(<<f, "i3">>), <<f, "B2">>)
            [] x = "P"  -> TPhi(<<<<f, "A1">>, <<f, "A3">>>>, OpqVN(<<f, "i2">>))
            [] x = "u"  -> TLcl(<<f, "i2">>, OpqVN(<<f, "i2">>))
            [] x = "u2" -> TLcl(<<f, "i2">>, OpqVN(<<f, "i2">>))
            [] x = "k" /\ f \in StepInLocal ->
                  TLcl(<<f, "s">>, FragSsaVN(d, <<f, "s">>))
            [] x = "k" /\ f \notin StepInLocal -> TCns(d.step)
            [] x = "k0" -> TCns(d.step)
            [] x = "add" -> TAdd(<<f, "u2">>, <<f, "k">>, OpqVN(<<f, "i3">>)))

Node(n) == FragNode(n[1], DescOf(n[1]), n[2])

\* The definition site of an SSA name, as MapMethodDefs records it.
FragDefOf(f, d, x) ==
    CASE d.shape = "phi" ->
         (CASE x = "x"  -> Def(<<f, "B0">>, "GT_ASG", NoTree, <<f, "call">>)
            [] x = "i1" -> Def(<<f, "B1">>, "GT_ASG", NoTree, <<f, "c0">>)
            [] x = "i2" -> Def(<<f, "B2">>, "GT_ASG", NoTree, <<f, "c1">>)
            [] x = "i3" -> Def(<<f, "B3">>, "GT_ASG", NoTree, <<f, "P">>))
      [] d.shape = "g" ->
         (CASE x = "x" /\ f \notin Parameters ->
                  Def(<<f, "B0">>, "GT_ASG", NoTree, <<f, "call">>)
            [] x = "x" /\ f \in Parameters -> [asg |-> "none"])
      [] d.shape = "nest" ->
         (CASE x = "i1" -> Def(<<f, "B0">>, "GT_ASG", NoTree, <<f, "c0">>)
            [] x = "i2" -> Def(<<f, "B1">>, "GT_ASG", NoTree, <<f, "Pi">>)
            [] x = "i3" -> Def(<<f, "B5">>, "GT_ASG", NoTree, <<f, "addi">>)
            [] x = "j1" -> Def(<<f, "B2">>, "GT_ASG", NoTree, <<f, "d0">>)
            [] x = "j2" -> Def(<<f, "B3">>, "GT_ASG", NoTree, <<f, "Pj">>)
            [] x = "j3" -> Def(<<f, "B4">>, "GT_ASG", NoTree, <<f, "addj">>))
      [] d.shape \in {"loop", "down"} ->
         (CASE x = "i1" -> Def(<<f, "B0">>, "GT_ASG", NoTree, <<f, "c0">>)
            [] x = "i2" -> Def(<<f, "B1">>, "GT_ASG", NoTree, <<f, "P">>)
            [] x = "i3" -> Def(<<f, "B2">>, "GT_ASG", NoTree, <<f, "add">>)
            [] x = "s"  -> Def(<<f, "B0">>, "GT_ASG", NoTree, <<f, "k0">>))

DefOf(s) == FragDefOf(s[1], DescOf(s[1]), s[2])

\* The assertions the guard of a fragment leaves on the edge into the
\* block of the check, in assertion-index order.
GuardAssertions(d, vn) ==
    CASE d.guard = "none" -> <<>>
      [] d.guard = "cns" /\ d.shape = "phi" ->
            <<AConstantBound(vn, "GT_LT", 0, "OAK_EQUAL"),
              AConstantBound(vn, "GT_GE", d.glim, "OAK_EQUAL")>>
      [] d.guard = "len" /\ d.shape = "phi" ->
            <<AConstantBound(vn, "GT_LT", 0, "OAK_EQUAL"),
              AArrLenBound(vn, "GT_GE", d.arr, "OAK_EQUAL")>>
      [] d.guard = "cns" /\ d.shape = "loop" ->
            <<AConstantBound(vn, "GT_GE", d.glim, "OAK_EQUAL")>>
      [] d.guard = "len" /\ d.shape = "loop" ->
            <<AArrLenBound(vn, "GT_GE", d.arr, "OAK_EQUAL")>>
      [] d.guard = "ge0" ->
            <<AConstantBound(vn, "GT_LT", 0, "OAK_EQUAL")>>
      [] d.shape = "g" /\ d.guard = "len" ->
            <<AConstantBound(vn, "GT_GE", 0, "OAK_NOT_EQUAL"),
              AArrLenBound(vn, "GT_LT", d.arr, "OAK_NOT_EQUAL")>>
      [] d.shape = "nest" ->
            <<AArrLenBound(vn, "GT_GE", d.arr, "OAK_EQUAL")>>

\* The upper test of the guard as a branch condition on the SSA name.
GuardCond(d, s) ==
    CASE d.guard = "cns" -> Cond(s, "GT_GE", "", d.glim)
      [] d.guard = "ge0" -> Cond(s, "GT_LT", "", 0)
      [] OTHER -> Cond(s, "GT_GE", d.arr, 0)

\* The basic block with the given identity <<fragment, name>>.
PlainBlock(stmts, kind, dest, next, cond) ==
    Block(stmts, kind, dest, next, cond, <<>>, <<>>, <<>>)

GuardedBlock(stmts, kind, dest, next, cond, assertions) ==
    Block(stmts, kind, dest, next, cond, assertions, assertions, assertions)

FragBlock(f, d, x) ==
    CASE d.shape = "k" ->
         PlainBlock(<<SChk(f)>>, "BBJ_RETURN", NoBlock, NoBlock, NoCond)
      [] d.shape = "phi" /\ d.guard = "none" ->
         (CASE x = "B0" -> PlainBlock(<<SAsg(<<f, "x">>)>>, "BBJ_COND", <<f, "B2">>,
                                      <<f, "B1">>, Cond(<<f, "x">>, "GT_GE", "", 1))
            [] x = "B1" -> PlainBlock(<<SAsg(<<f, "i1">>)>>, "BBJ_ALWAYS", <<f, "B3">>,
                                      <<f, "B2">>, NoCond)
            [] x = "B2" -> PlainBlock(<<SAsg(<<f, "i2">>)>>, "BBJ_NONE", NoBlock,
                                      <<f, "B3">>, NoCond)
            [] x = "B3" -> PlainBlock(<<SAsg(<<f, "i3">>)>>, "BBJ_NONE", NoBlock,
                                      <<f, "B4">>, NoCond)
            [] x = "B4" -> PlainBlock(<<>>, "BBJ_NONE", NoBlock, <<f, "B5">>, NoCond)
            [] x = "B5" -> PlainBlock(<<SChk(f)>>, "BBJ_NONE", NoBlock, <<f, "B6">>, NoCond)
            [] x = "B6" -> PlainBlock(<<>>, "BBJ_RETURN", NoBlock, NoBlock, NoCond))
      [] d.shape = "phi" ->
         (CASE x = "B0" -> PlainBlock(<<SAsg(<<f, "x">>)>>, "BBJ_COND", <<f, "B2">>,
                                      <<f, "B1">>, Cond(<<f, "x">>, "GT_GE", "", 1))
            [] x = "B1" -> PlainBlock(<<SAsg(<<f, "i1">>)>>, "BBJ_ALWAYS", <<f, "B3">>,
                                      <<f, "B2">>, NoCond)
            [] x = "B2" -> PlainBlock(<<SAsg(<<f, "i2">>)>>, "BBJ_NONE", NoBlock,
                                      <<f, "B3">>, NoCond)
            [] x = "B3" -> PlainBlock(<<SAsg(<<f, "i3">>)>>, "BBJ_COND", <<f, "B6">>,
                                      <<f, "B4">>, Cond(<<f, "i3">>, "GT_LT", "", 0))
            [] x = "B4" -> PlainBlock(<<>>, "BBJ_COND", <<f, "B6">>, <<f, "B5">>,
                                      GuardCond(d, <<f, "i3">>))
            [] x = "B5" -> GuardedBlock(<<SChk(f)>>, "BBJ_NONE", NoBlock, <<f, "B6">>,
                                        NoCond, GuardAssertions(d, OpqVN(<<f, "i3">>)))
            [] x = "B6" -> PlainBlock(<<>>, "BBJ_RETURN", NoBlock, NoBlock, NoCond))
      [] d.shape = "g" ->
         (CASE x = "B0" -> PlainBlock(IF f \in Parameters THEN <<>>
                                      ELSE <<SAsg(<<f, "x">>)>>,
                                      "BBJ_COND", <<f, "B3">>, <<f, "B1">>,
                                      Cond(<<f, "x">>, "GT_LT", "", 0))
            [] x = "B1" -> PlainBlock(<<>>, "BBJ_COND", <<f, "B3">>, <<f, "B2">>,
                                      GuardCond(d, <<f, "x">>))
            [] x = "B2" -> GuardedBlock(<<SChk(f)>>, "BBJ_NONE", NoBlock, <<f, "B3">>,
                                        NoCond, GuardAssertions(d, OpqVN(<<f, "x">>)))
            [] x = "B3" -> PlainBlock(<<>>, "BBJ_RETURN", NoBlock, NoBlock, NoCond))
      [] d.shape = "nest" ->
         (CASE x = "B0" -> PlainBlock(<<SAsg(<<f, "i1">>)>>, "BBJ_NONE", NoBlock,
                                      <<f, "B1">>, NoCond)
            [] x = "B1" -> PlainBlock(<<SAsg(<<f, "i2">>)>>, "BBJ_COND", <<f, "B6">>,
                                      <<f, "B2">>, GuardCond(d, <<f, "i2">>))
            [] x = "B2" -> GuardedBlock(<<SAsg(<<f, "j1">>)>>, "BBJ_NONE", NoBlock,
                                        <<f, "B3">>, NoCond,
                                        GuardAssertions(d, OpqVN(<<f, "i2">>)))
            [] x = "B3" -> GuardedBlock(<<SAsg(<<f, "j2">>)>>, "BBJ_COND", <<f, "B5">>,
                                        <<f, "B4">>, GuardCond(d, <<f, "j2">>),
                                        GuardAssertions(d, OpqVN(<<f, "i2">>)))
            [] x = "B4" -> GuardedBlock(<<SChk(f), SAsg(<<f, "j3">>)>>, "BBJ_ALWAYS",
                                        <<f, "B3">>, <<f, "B5">>, NoCond,
                                        GuardAssertions(d, OpqVN(<<f, "i2">>)) \o
                                        GuardAssertions(d, OpqVN(<<f, "j2">>)))
            [] x = "B5" -> GuardedBlock(<<SAsg(<<f, "i3">>)>>, "BBJ_ALWAYS", <<f, "B1">>,
                                        <<f, "B6">>, NoCond,
                                        GuardAssertions(d, OpqVN(<<f, "i2">>)))
            [] x = "B6" -> PlainBlock(<<>>, "BBJ_RETURN", NoBlock, NoBlock, NoCond))
      [] d.shape \in {"loop", "down"} ->
         (CASE x = "B0" -> PlainBlock((IF f \in StepInLocal THEN <<SAsg(<<f, "s">>)>>
                                       ELSE <<>>) \o <<SAsg(<<f, "i1">>)>>,
                                      "BBJ_NONE", NoBlock, <<f, "B1">>, NoCond)
            [] x = "B1" -> PlainBlock(<<SAsg(<<f, "i2">>)>>, "BBJ_COND", <<f, "B3">>,
                                      <<f, "B2">>, GuardCond(d, <<f, "i2">>))
            [] x = "B2" -> GuardedBlock(<<SChk(f), SAsg(<<f, "i3">>)>>, "BBJ_ALWAYS",
                                        <<f, "B1">>, <<f, "B3">>, NoCond,
                                        GuardAssertions(d, OpqVN(<<f, "i2">>)))
            [] x = "B3" -> PlainBlock(<<>>, "BBJ_RETURN", NoBlock, NoBlock, NoCond))

BasicBlock(b) == FragBlock(b[1], DescOf(b[1]), b[2])

\* The bounds check of a fragment: the COMMA node's GT_ARR_BOUNDS_CHECK.
FragBndsChk(f, d) ==
    [gtIndex |-> <<f, CASE d.shape = "phi" /\ d.add # 0 -> "add"
                        [] d.shape = "nest" -> "idx"
                        [] OTHER -> "u">>,
     gtArrLen |-> ArrLenVN(d.arr),
     block |-> <<f, CASE d.shape = "k" -> "B0"
                      [] d.shape = "phi" -> "B5"
                      [] d.shape = "nest" -> "B4"
                      [] OTHER -> "B2">>]

BndsChk(f) == FragBndsChk(f, DescOf(f))

\* ------------------------------------------------------------------ *\
\* External collaborators                                               *
\* ------------------------------------------------------------------ *\

\* vnStore->GetNewArrSize: the allocated size, 0 when not known.
GetNewArrSize(arrRefVN) ==
    IF arrRefVN.k = "arr" THEN NewArrSize[arrRefVN.id] ELSE 0

\* optIsTreeKnownIntValue(vnBased = true): <<known, value>>.
optIsTreeKnownIntValue(vn) ==
    IF IsVNConstant(vn) /\ TypeOfVN(vn) = "TYP_INT" THEN <<TRUE, ConstantValue(vn)>>
    ELSE <<FALSE, -1>>

ReverseRelop(oper) ==
    CASE oper = "GT_LT" -> "GT_GE"
      [] oper = "GT_GE" -> "GT_LT"
      [] oper = "GT_GT" -> "GT_LE"
      [] oper = "GT_LE" -> "GT_GT"
      [] oper = "GT_EQ" -> "GT_NE"
      [] oper = "GT_NE" -> "GT_EQ"
      [] OTHER -> oper

IsLocal(t) == t.oper \in {"GT_LCL_VAR", "GT_PHI_ARG"}

bbFallsThrough(b) == b.bbJumpKind \in {"BBJ_NONE", "BBJ_COND"}

\* ------------------------------------------------------------------ *\
\* Faulty variants of the decision points, which the properties must    *
\* tell apart from the definitions of the pass                          *
\* ------------------------------------------------------------------ *\

\* IsOverBudget with the comparison made strict.
IsOverBudgetNegative(nVisitBudget) == nVisitBudget < 0

\* IsOverBudget reporting exhaustion one visit early.
IsOverBudgetEarly(nVisitBudget) == nVisitBudget <= 1

\* The 64-bit test of ComputeRange left out.
IsLongTypeNever(t) == FALSE

\* The fast path with the upper comparison off by one.
ConstantFastDecisionOffByOne(idxVn, arrSize) ==
    IF IsVNConstant(idxVn) /\ arrSize > 0
    THEN (IF ~optIsTreeKnownIntValue(idxVn)[1] THEN "keep"
          ELSE IF arrSize > 0 /\ optIsTreeKnownIntValue(idxVn)[2] <= arrSize
                  /\ optIsTreeKnownIntValue(idxVn)[2] >= 0
          THEN "remove"
          ELSE "range-compute")
    ELSE "range-compute"

\* The result of DoesOverflow ignored.
AfterOverflowIgnored(overflows) == "widen"

\* The result of BetweenBounds ignored.
AfterBoundsAlways(between) == "remove"

\* ------------------------------------------------------------------ *\
\* The pass                                                             *
\* ------------------------------------------------------------------ *\

IsOverBudget(nVisitBudget) == nVisitBudget <= 0

\* Get the length of the array vn, if it is new.
GetArrLength(vn) == GetNewArrSize(GetArrForLenVn(vn))

\* Get the def location of a given variable; "none" when there is none.
GetDef(ssa) ==
    IF ssa = NoSsa \/ DescOf(ssa[1]).shape = "k" THEN [asg |-> "none"] ELSE DefOf(ssa)

\* The limit and the relop an assertion yields for the local with value
\* number lclVn: <<matches, limit, cmpOper>>.
AssertionLimit(a, lclVn) ==
    CASE a.shape = "ArrLenArithBound" ->
            IF lclVn # a.cmpOp THEN <<FALSE, Limit("keUndef"), "GT_NONE">>
            ELSE IF a.arrOper \in {"GT_SUB", "GT_ADD"}
                    /\ IsVNConstant(a.arrOp) /\ TypeOfVN(a.arrOp) = "TYP_INT"
                 THEN <<TRUE,
                        LimitV("keBinOpArray", a.vnArray,
                               IF a.arrOper = "GT_SUB" THEN -ConstantValue(a.arrOp)
                               ELSE ConstantValue(a.arrOp)),
                        a.cmpOper>>
                 ELSE <<TRUE, Limit("keUndef"), a.cmpOper>>
      [] a.shape = "ArrLenBound" ->
            IF lclVn # a.cmpOp THEN <<FALSE, Limit("keUndef"), "GT_NONE">>
            ELSE <<TRUE, LimitV("keArray", a.vnArray, 0), a.cmpOper>>
      [] a.shape = "ConstantBound" ->
            IF lclVn # a.cmpOp THEN <<FALSE, Limit("keUndef"), "GT_NONE">>
            ELSE <<TRUE, LimitV("keConstant", NoVN, a.constVal), a.cmpOper>>
      [] OTHER -> <<FALSE, Limit("keUndef"), "GT_NONE">>

\* The constant in a limit on an array length: a.Length + cns.
LimitCns(l) == IF IsBinOpArray(l) THEN l.cns ELSE 0

\* The two tests of MergeEdgeAssertions that skip an assertion: the upper
\* limit is a constant and the incoming limit is not on the array of the
\* check; or the upper limit is on the array of the check and the
\* incoming limit is on another array or does not tighten it.
Skips(limit, arrRefVN, range) ==
    \/ IsConstant(range.uLimit) /\ limit.vn # arrRefVN
    \/ /\ IsArray(range.uLimit) \/ IsBinOpArray(range.uLimit)
       /\ range.uLimit.vn = arrRefVN
       /\ (limit.vn # arrRefVN \/ LimitCns(limit) >= LimitCns(range.uLimit))

\* A constant upper limit kept against every limit on an array, the
\* array of the check included.
TightenKeepsConstant(limit, cmpOper, arrRefVN, range) ==
    IF IsConstant(range.uLimit) /\ (limit.vn # arrRefVN \/ IsArray(limit) \/ IsBinOpArray(limit))
    THEN range
    ELSE IF Skips(limit, arrRefVN, range) THEN range
    ELSE CASE cmpOper \in {"GT_LT", "GT_LE"} -> [range EXCEPT !.uLimit = limit]
           [] cmpOper \in {"GT_GT", "GT_GE"} -> [range EXCEPT !.lLimit = limit]
           [] OTHER -> range

\* One iteration of the loop of MergeEdgeAssertions: the range after
\* looking at assertion a.
Tighten(limit, cmpOper, arrRefVN, range) ==
    IF IsConstant(range.uLimit) /\ limit.vn # arrRefVN THEN range
    ELSE IF (IsArray(range.uLimit) \/ IsBinOpArray(range.uLimit))
            /\ range.uLimit.vn = arrRefVN
            /\ (limit.vn # arrRefVN
                \/ (IF IsBinOpArray(limit) THEN limit.cns ELSE 0)
                   >= (IF IsBinOpArray(range.uLimit) THEN range.uLimit.cns ELSE 0))
    THEN range
    ELSE CASE cmpOper \in {"GT_LT", "GT_LE"} -> [range EXCEPT !.uLimit = limit]
           [] cmpOper \in {"GT_GT", "GT_GE"} -> [range EXCEPT !.lLimit = limit]
           [] OTHER -> range

\* The limit moved by one for a strict comparison: <<ok, limit>>.
\* The upper bound of "<" taken as inclusive.
AdjustInclusive(limit, cmpOper) ==
    CASE cmpOper = "GT_GT" -> AddConstant(limit, 1)
      [] OTHER -> <<TRUE, limit>>

\* Bounds are inclusive, so add -1 for upper bound when "<" and +1 for
\* lower bound when ">".
Adjust(limit, cmpOper) ==
    CASE cmpOper = "GT_LT" -> AddConstant(limit, -1)
      [] cmpOper = "GT_GT" -> AddConstant(limit, 1)
      [] OTHER -> <<TRUE, limit>>

TightenAdjusted(adj, cmpOper, arrRefVN, range) ==
    IF ~adj[1] THEN range ELSE Tighten(adj[2], cmpOper, arrRefVN, range)

ApplyAssertion(al, a, cmpOper, arrRefVN, range) ==
    IF ~al[1] \/ IsUndef(al[2]) THEN range
    ELSE IF a.op2 # VNZeroForType THEN range
    ELSE TightenAdjusted(Adjust(al[2], cmpOper), cmpOper, arrRefVN, range)

AssertionRelop(a, cmpOper) ==
    IF a.assertionKind = "OAK_EQUAL" THEN ReverseRelop(cmpOper) ELSE cmpOper

ApplyAssertionLimit(al, a, arrRefVN, range) ==
    ApplyAssertion(al, a, AssertionRelop(a, al[3]), arrRefVN, range)

MergeOneAssertion(a, lclVn, arrLenVN, range) ==
    ApplyAssertionLimit(AssertionLimit(a, lclVn), a,
                        IF IsVNArrLen(arrLenVN) THEN GetArrForLenVn(arrLenVN) ELSE NoVN,
                        range)

RECURSIVE MergeAssertionsFrom(_, _, _, _, _)
MergeAssertionsFrom(i, assertions, lclVn, arrLenVN, range) ==
    IF i > Len(assertions) THEN range
    ELSE MergeAssertionsFrom(i + 1, assertions, lclVn, arrLenVN,
                             MergeOneAssertion(assertions[i], lclVn, arrLenVN, range))

\* Merge assertions on the edge flowing into the block about a variable.
\* ssa is the SSA name of the local "tree"; chk the check being processed.
MergeEdgeAssertions(ssa, assertions, chk, range) ==
    IF assertions = <<>> \/ ssa = NoSsa THEN range
    ELSE MergeAssertionsFrom(1, assertions, SsaVN(ssa), BndsChk(chk).gtArrLen, range)

\* Merge assertions from the pred edges of the block for phi arguments,
\* from the assertions flowing into the block for other locals.
\* The assertions on the edge from pred into block.
PredAssertions(pred, block) ==
    IF bbFallsThrough(pred) /\ pred.bbNext = block THEN pred.bbAssertionOut
    ELSE IF pred.bbJumpKind \in {"BBJ_COND", "BBJ_ALWAYS"} /\ pred.bbJumpDest = block
    THEN pred.bbJtrueAssertionOut
    ELSE <<>>

AssertionsFor(block, t) ==
    IF t.oper = "GT_PHI_ARG" THEN PredAssertions(BasicBlock(t.pred), block)
    ELSE IF IsLocal(t) THEN BasicBlock(block).bbAssertionIn
    ELSE <<>>

MergeAssertionOf(block, t, chk, range) ==
    MergeEdgeAssertions(t.ssa, AssertionsFor(block, t), chk, range)

MergeAssertion(block, op, chk, range) == MergeAssertionOf(block, Node(op), chk, range)

\* ------------------------------------------------------------------ *\
\* Range engine.  The state threaded through the recursion is the       *
\* record [budget, rmap, omap, path, chk]: m_nVisitBudget, the range    *
\* map, the overflow map, the search path and m_pCurBndsChk.            *
\* ------------------------------------------------------------------ *\

Res(st, r) == [st |-> st, r |-> r]

Lookup(map, key) == key \in DOMAIN map

Set(map, key, val) == (key :> val) @@ map

RECURSIVE GetRange(_, _, _, _)
RECURSIVE ComputeRange(_, _, _, _)
RECURSIVE ComputeRangeForLocalDef(_, _, _, _)
RECURSIVE ComputeRangeForBinOp(_, _, _, _, _)
RECURSIVE PhiArgRanges(_, _, _, _, _)

\* The computed range returned without the assertions of the edge.
MergeIntoSkipped(g, block, op) == g

\* MergeAssertion(block, stmt, op, path, &range) on a computed range.
MergeInto(g, block, op) ==
    Res(g.st, MergeAssertion(block, op, g.st.chk, g.r))

\* The range of one operand of a binary operation.
OperandRange(st, block, op, monotonic) ==
    IF Lookup(st.rmap, op) THEN Res(st, st.rmap[op])
    ELSE MergeInto(IF op \notin st.path
                   THEN GetRange(st, block, op, monotonic)
                   ELSE Res(st, Range(Limit("keDependent"))),
                   block, op)

\* Compute the range for a binary operation.
AddRanges(range1, r2) == Res(r2.st, RangeAdd(range1, r2.r))

AddSecondOperand(r1, block, op2, monotonic) ==
    AddRanges(r1.r, OperandRange(r1.st, block, op2, monotonic))

ComputeRangeForBinOp(st, block, op1, op2, monotonic) ==
    AddSecondOperand(OperandRange(st, block, op1, monotonic), block, op2, monotonic)

\* Compute the range for a local var definition.
MergeDefAssertions(g, block, lhs) ==
    Res(g.st, MergeEdgeAssertions(lhs, BasicBlock(block).bbAssertionIn, g.st.chk, g.r))

LocalDefRange(st, block, loc, lhs, monotonic) ==
    CASE loc.asg = "none" -> Res(st, Range(Limit("keUnknown")))
      [] loc.asg = "GT_ASG" ->
            MergeDefAssertions(GetRange(st, loc.block, loc.op2, monotonic), block, lhs)
      [] loc.asg = "GT_ASG_ADD" ->
            ComputeRangeForBinOp(st, loc.block, loc.op1, loc.op2, monotonic)
      [] OTHER -> Res(st, Range(Limit("keUnknown")))

LocalDefRangeOf(st, block, lhs, monotonic) ==
    LocalDefRange(st, block, GetDef(lhs), lhs, monotonic)

ComputeRangeForLocalDef(st, block, expr, monotonic) ==
    LocalDefRangeOf(st, block, Node(expr).ssa, monotonic)

\* The list of the ranges of the phi arguments from the i-th on.
Prepend(range, rest) == Res(rest.st, <<range>> \o rest.r)

PhiArgRest(cur, block, args, i, monotonic) ==
    Prepend(cur.r, PhiArgRanges(cur.st, block, args, i + 1, monotonic))

PhiArgRanges(st, block, args, i, monotonic) ==
    IF i > Len(args) THEN Res(st, <<>>)
    ELSE PhiArgRest(MergeInto(IF args[i] \in st.path
                              THEN Res(st, Range(Limit("keDependent")))
                              ELSE GetRange(st, block, args[i], monotonic),
                              block, args[i]),
                    block, args, i, monotonic)

RECURSIVE MergeRanges(_, _, _, _)
MergeRanges(range, list, i, monotonic) ==
    IF i > Len(list) THEN range
    ELSE MergeRanges(RangeMerge(range, list[i], monotonic), list, i + 1, monotonic)

\* Compute the range recursively by asking for the range of each variable
\* in the dependency chain.
MergePhi(l, monotonic) ==
    Res(l.st, MergeRanges(Range(Limit("keUndef")), l.r, 1, monotonic))

\* The expressions with a call in progress that are not on the path.
Unguarded(engine, calls, path) ==
    {<<engine, calls[i]>> : i \in {j \in DOMAIN calls : calls[j] \notin path}}

\* The calls in progress without the innermost one.
Returned(calls) == SubSeq(calls, 1, Len(calls) - 1)

\* The budget charged for every call, also one that finds its expression
\* on the path.
VisitChargesAll(st, expr) ==
    [st EXCEPT !.path = st.path \cup {expr},
               !.budget = st.budget - 1,
               !.calls = Append(st.calls, expr),
               !.miss = st.miss + 1,
               !.again = IF expr \in st.path THEN st.again + 1 ELSE st.again]

\* path->Set(expr, block), and the budget charge for a newly added node.
\* calls is the stack of the expressions whose ComputeRange is in
\* progress, miss counts the calls and again those that found their
\* expression on the path.
Visit(st, expr) ==
    [st EXCEPT !.path = st.path \cup {expr},
               !.budget = IF expr \notin st.path THEN st.budget - 1 ELSE st.budget,
               !.calls = Append(st.calls, expr),
               !.miss = st.miss + 1,
               !.again = IF expr \in st.path THEN st.again + 1 ELSE st.again]

IsLongType(t) == t.type \in {"TYP_LONG", "TYP_ULONG"}

\* The chain of cases of ComputeRange, on the state left by Visit.
ResolveRange(st1, block, expr, t, monotonic) ==
    CASE IsOverBudget(st1.budget) -> Res(st1, Range(Limit("keUnknown")))
      [] Cardinality(st1.path) > MAX_SEARCH_DEPTH -> Res(st1, Range(Limit("keUnknown")))
      [] IsLongType(t) -> Res(st1, Range(Limit("keUnknown")))
      [] IsVNConstant(t.vn) ->
            Res(st1, IF TypeOfVN(t.vn) = "TYP_INT"
                     THEN Range(LimitC(ConstantValue(t.vn)))
                     ELSE Range(Limit("keUnknown")))
      [] IsLocal(t) ->
            MergeInto(ComputeRangeForLocalDef(st1, block, expr, monotonic), block, expr)
      [] t.oper = "GT_ADD" -> ComputeRangeForBinOp(st1, block, t.op1, t.op2, monotonic)
      [] t.oper = "GT_PHI" ->
            MergePhi(PhiArgRanges(st1, block, t.args, 1, monotonic), monotonic)
      [] OTHER -> Res(st1, Range(Limit("keUnknown")))

\* The entries of the range map that were computed with monotonic = true.
Computed(mono, expr, monotonic) ==
    IF monotonic THEN mono \cup {expr} ELSE mono \ {expr}

\* StoreRange without the removal from the path.
StoreRangeKeepsPath(c, expr, monotonic) ==
    Res([c.st EXCEPT !.rmap = Set(c.st.rmap, expr, c.r),
                     !.mono = Computed(c.st.mono, expr, monotonic),
                     !.calls = Returned(c.st.calls)],
        c.r)

\* GetRangeMap()->Set(expr, range); path->Remove(expr).
StoreRange(c, expr, monotonic) ==
    Res([c.st EXCEPT !.rmap = Set(c.st.rmap, expr, c.r),
                     !.mono = Computed(c.st.mono, expr, monotonic),
                     !.path = c.st.path \ {expr},
                     !.calls = Returned(c.st.calls),
                     !.lost = c.st.lost \cup Unguarded("range", Returned(c.st.calls),
                                                      c.st.path \ {expr})],
        c.r)

ComputeRange(st, block, expr, monotonic) ==
    StoreRange(ResolveRange(Visit(st, expr), block, expr, Node(expr), monotonic), expr,
               monotonic)

\* Get the range, if it is already computed, use the cached range value,
\* else compute it.
GetRange(st, block, expr, monotonic) ==
    IF Lookup(st.rmap, expr) THEN Res(st, st.rmap[expr])
    ELSE ComputeRange(st, block, expr, monotonic)

\* ------------------------------------------------------------------ *\
\* Overflow engine                                                      *
\* ------------------------------------------------------------------ *\

\* Get the limit's maximum possible value, treating array length to be
\* ARRLEN_MAX: <<ok, max>>.
GetLimitMax(limit) ==
    CASE limit.type = "keConstant" -> <<TRUE, limit.cns>>
      [] limit.type = "keBinOpArray" ->
            LET len == GetArrLength(limit.vn)
                tmp == IF len <= 0 THEN ARRLEN_MAX ELSE len
            IN  IF IntAddOverflows(tmp, limit.cns) THEN <<FALSE, 0>>
                ELSE <<TRUE, tmp + limit.cns>>
      [] limit.type = "keArray" ->
            LET len == GetArrLength(limit.vn)
            IN  <<TRUE, IF len <= 0 THEN ARRLEN_MAX ELSE len>>
      [] limit.type \in {"keSsaVar", "keBinOp"} ->
            IF IsVNConstant(limit.vn) /\ TypeOfVN(limit.vn) = "TYP_INT"
            THEN (IF limit.type = "keBinOp"
                  THEN (IF IntAddOverflows(ConstantValue(limit.vn), limit.cns)
                        THEN <<FALSE, 0>>
                        ELSE <<TRUE, ConstantValue(limit.vn) + limit.cns>>)
                  ELSE <<TRUE, ConstantValue(limit.vn)>>)
            ELSE <<FALSE, 0>>
      [] OTHER -> <<FALSE, 0>>

\* Check if the arithmetic overflows.
\* The sum of the two maxima taken never to overflow.
AddOverflowsNever(limit1, limit2) == FALSE

AddOverflows(limit1, limit2) ==
    LET m1 == GetLimitMax(limit1)
        m2 == GetLimitMax(limit2)
    IN  IF ~m1[1] THEN TRUE
        ELSE IF ~m2[1] THEN TRUE
        ELSE IntAddOverflows(m1[2], m2[2])

RECURSIVE DoesOverflow(_, _, _)
RECURSIVE ComputeDoesOverflow(_, _, _)
RECURSIVE DoesBinOpOverflow(_, _, _, _)
RECURSIVE DoesVarDefOverflow(_, _, _)
RECURSIVE DoesPhiOverflow(_, _, _, _)

\* The cached range of op, re-merged with the assertions in place when
\* its upper limit is dependent.
RemergeIfDependent(st, block, op) ==
    IF IsDependent(st.rmap[op].uLimit)
    THEN [st EXCEPT !.rmap = Set(st.rmap, op, MergeAssertion(block, op, st.chk, st.rmap[op]))]
    ELSE st

\* Does the bin operation overflow.
AddOverflowsIn(s2, op1, op2) ==
    Res(s2, AddOverflows(s2.rmap[op1].uLimit, s2.rmap[op2].uLimit))

\* Both operands are known not to overflow: the cached ranges decide.
BinOpOverflowByRanges(st, block, op1, op2) ==
    IF ~Lookup(st.rmap, op1) \/ ~Lookup(st.rmap, op2) THEN Res(st, TRUE)
    ELSE AddOverflowsIn(RemergeIfDependent(RemergeIfDependent(st, block, op1), block, op2),
                        op1, op2)

SecondOperandOverflow(o2, block, op1, op2) ==
    IF o2.r THEN Res(o2.st, TRUE) ELSE BinOpOverflowByRanges(o2.st, block, op1, op2)

FirstOperandOverflow(o1, block, op1, op2) ==
    IF o1.r THEN Res(o1.st, TRUE)
    ELSE SecondOperandOverflow(IF op2 \notin o1.st.path
                               THEN DoesOverflow(o1.st, block, op2)
                               ELSE Res(o1.st, FALSE),
                               block, op1, op2)

DoesBinOpOverflow(st, block, op1, op2) ==
    FirstOperandOverflow(IF op1 \notin st.path THEN DoesOverflow(st, block, op1)
                         ELSE Res(st, FALSE),
                         block, op1, op2)

\* Check if the var definition the rhs involves arithmetic that overflows.
VarDefOverflow(st, loc) ==
    CASE loc.asg = "none" -> Res(st, TRUE)
      [] loc.asg = "GT_ASG" -> DoesOverflow(st, loc.block, loc.op2)
      [] loc.asg = "GT_ASG_ADD" -> DoesBinOpOverflow(st, loc.block, loc.op1, loc.op2)
      [] OTHER -> Res(st, TRUE)

DoesVarDefOverflow(st, block, expr) == VarDefOverflow(st, GetDef(Node(expr).ssa))

\* Walk the phi arguments from the i-th on.
PhiArgOverflow(o, block, args, i) ==
    IF o.r THEN Res(o.st, TRUE) ELSE DoesPhiOverflow(o.st, block, args, i + 1)

DoesPhiOverflow(st, block, args, i) ==
    IF i > Len(args) THEN Res(st, FALSE)
    ELSE IF args[i] \in st.path THEN DoesPhiOverflow(st, block, args, i + 1)
    ELSE PhiArgOverflow(DoesOverflow(st, block, args[i]), block, args, i)

\* An expression of no recognised kind taken not to overflow.
UnrecognisedNeverOverflows(t) == FALSE

\* bool overflows = true: the verdict for an expression of no recognised kind.
UnrecognisedOverflows(t) == TRUE

ResolveOverflow(st1, block, expr, t) ==
    CASE Cardinality(st1.path) > MAX_SEARCH_DEPTH -> Res(st1, TRUE)
      [] IsVNConstant(t.vn) -> Res(st1, FALSE)
      [] IsLocal(t) -> DoesVarDefOverflow(st1, block, expr)
      [] t.oper = "GT_ADD" -> DoesBinOpOverflow(st1, block, t.op1, t.op2)
      [] t.oper = "GT_PHI" -> DoesPhiOverflow(st1, block, t.args, 1)
      [] OTHER -> Res(st1, UnrecognisedOverflows(t))

\* GetOverflowMap()->Set(expr, overflows); path->Remove(expr).
StoreOverflow(c, expr) ==
    Res([c.st EXCEPT !.omap = Set(c.st.omap, expr, c.r),
                     !.path = c.st.path \ {expr},
                     !.calls = Returned(c.st.calls),
                     !.lost = c.st.lost \cup Unguarded("overflow", Returned(c.st.calls),
                                                      c.st.path \ {expr})],
        c.r)

\* path->Set(expr, block).
VisitOverflow(st, expr) ==
    [st EXCEPT !.path = st.path \cup {expr}, !.calls = Append(st.calls, expr)]

ComputeDoesOverflow(st, block, expr) ==
    StoreOverflow(ResolveOverflow(VisitOverflow(st, expr), block, expr, Node(expr)), expr)

DoesOverflow(st, block, expr) ==
    IF Lookup(st.omap, expr) THEN Res(st, st.omap[expr])
    ELSE ComputeDoesOverflow(st, block, expr)

\* ------------------------------------------------------------------ *\
\* Monotonicity prover                                                  *
\* ------------------------------------------------------------------ *\

RECURSIVE IsMonotonicallyIncreasing(_, _)
RECURSIVE IsBinOpMonotonicallyIncreasing(_, _, _, _)
RECURSIVE IsPhiMonotonicallyIncreasing(_, _, _)

\* The sign of the added constant not looked at.
BinOpMonotonicAnySign(a, ta, b, tb, oper, path) ==
    IF ta.oper # "GT_LCL_VAR" THEN FALSE
    ELSE CASE tb.oper = "GT_LCL_VAR" ->
                 IsMonotonicallyIncreasing(a, path) /\ IsMonotonicallyIncreasing(b, path)
           [] tb.oper = "GT_CNS_INT" ->
                 oper = "GT_ADD" /\ IsMonotonicallyIncreasing(a, path)
           [] OTHER -> FALSE

\* a is the operand expected to be the local, ta and tb the two nodes.
BinOpMonotonic(a, ta, b, tb, oper, path) ==
    IF ta.oper # "GT_LCL_VAR" THEN FALSE
    ELSE CASE tb.oper = "GT_LCL_VAR" ->
                 IsMonotonicallyIncreasing(a, path) /\ IsMonotonicallyIncreasing(b, path)
           [] tb.oper = "GT_CNS_INT" ->
                 oper = "GT_ADD" /\ tb.icon >= 0 /\ IsMonotonicallyIncreasing(a, path)
           [] OTHER -> FALSE

\* Check if we have a var + const: the operands are swapped when op2 is
\* the local.
BinOpSwapped(op1, t1, op2, t2, oper, path) ==
    IF t2.oper = "GT_LCL_VAR" THEN BinOpMonotonic(op2, t2, op1, t1, oper, path)
    ELSE BinOpMonotonic(op1, t1, op2, t2, oper, path)

IsBinOpMonotonicallyIncreasing(op1, op2, oper, path) ==
    BinOpSwapped(op1, Node(op1), op2, Node(op2), oper, path)

\* Every phi argument from the i-th on that is not in the path is monotonic.
IsPhiMonotonicallyIncreasing(args, i, path) ==
    IF i > Len(args) THEN TRUE
    ELSE IF args[i] \in path THEN IsPhiMonotonicallyIncreasing(args, i + 1, path)
    ELSE IsMonotonicallyIncreasing(args[i], path)
         /\ IsPhiMonotonicallyIncreasing(args, i + 1, path)

DefMonotonic(loc, path1) ==
    CASE loc.asg = "none" -> FALSE
      [] loc.asg = "GT_ASG" -> IsMonotonicallyIncreasing(loc.op2, path1)
      [] loc.asg = "GT_ASG_ADD" ->
            IsBinOpMonotonicallyIncreasing(loc.op1, loc.op2, "GT_ADD", path1)
      [] OTHER -> FALSE

\* The chain of cases of IsMonotonicallyIncreasing, expr being on path1.
NodeMonotonic(t, path1) ==
    CASE Cardinality(path1) > MAX_SEARCH_DEPTH -> FALSE
      [] IsVNConstant(t.vn) -> TRUE
      [] IsLocal(t) -> DefMonotonic(GetDef(t.ssa), path1)
      [] t.oper = "GT_ADD" -> IsBinOpMonotonicallyIncreasing(t.op1, t.op2, "GT_ADD", path1)
      [] t.oper = "GT_PHI" -> IsPhiMonotonicallyIncreasing(t.args, 1, path1)
      [] OTHER -> FALSE

IsMonotonicallyIncreasing(expr, path) ==
    IF expr \in path THEN TRUE ELSE NodeMonotonic(Node(expr), path \cup {expr})

\* The prover once more, with the search path threaded through it as
\* the hashtable the code shares between its calls: each call answers
\* [r, path], the verdict and the path it leaves behind.
Mono(r, path) == [r |-> r, path |-> path]

RECURSIVE MonotonicOnPath(_, _)
RECURSIVE PhiOnPath(_, _, _)

\* The right operand of &&: evaluated only when the left one holds.
AndOnPath(m, expr) == IF m.r THEN MonotonicOnPath(expr, m.path) ELSE m

BinOpOnPath(a, ta, b, tb, oper, path) ==
    IF ta.oper # "GT_LCL_VAR" THEN Mono(FALSE, path)
    ELSE CASE tb.oper = "GT_LCL_VAR" -> AndOnPath(MonotonicOnPath(a, path), b)
           [] tb.oper = "GT_CNS_INT" ->
                 IF oper = "GT_ADD" /\ tb.icon >= 0 THEN MonotonicOnPath(a, path)
                 ELSE Mono(FALSE, path)
           [] OTHER -> Mono(FALSE, path)

BinOpSwappedOnPath(op1, t1, op2, t2, oper, path) ==
    IF t2.oper = "GT_LCL_VAR" THEN BinOpOnPath(op2, t2, op1, t1, oper, path)
    ELSE BinOpOnPath(op1, t1, op2, t2, oper, path)

PhiRestOnPath(m, args, i) == IF m.r THEN PhiOnPath(args, i + 1, m.path) ELSE m

PhiOnPath(args, i, path) ==
    IF i > Len(args) THEN Mono(TRUE, path)
    ELSE IF args[i] \in path THEN PhiOnPath(args, i + 1, path)
    ELSE PhiRestOnPath(MonotonicOnPath(args[i], path), args, i)

DefOnPath(loc, path1) ==
    CASE loc.asg = "none" -> Mono(FALSE, path1)
      [] loc.asg = "GT_ASG" -> MonotonicOnPath(loc.op2, path1)
      [] loc.asg = "GT_ASG_ADD" ->
            BinOpSwappedOnPath(loc.op1, Node(loc.op1), loc.op2, Node(loc.op2), "GT_ADD",
                               path1)
      [] OTHER -> Mono(FALSE, path1)

NodeOnPath(t, path1) ==
    CASE Cardinality(path1) > MAX_SEARCH_DEPTH -> Mono(FALSE, path1)
      [] IsVNConstant(t.vn) -> Mono(TRUE, path1)
      [] IsLocal(t) -> DefOnPath(GetDef(t.ssa), path1)
      [] t.oper = "GT_ADD" ->
            BinOpSwappedOnPath(t.op1, Node(t.op1), t.op2, Node(t.op2), "GT_ADD", path1)
      [] t.oper = "GT_PHI" -> PhiOnPath(t.args, 1, path1)
      [] OTHER -> Mono(FALSE, path1)

\* The scoped path->Remove(expr), run on every way out of the call.
Released(m, expr) == Mono(m.r, m.path \ {expr})

MonotonicOnPath(expr, path) ==
    IF expr \in path THEN Mono(TRUE, path)
    ELSE Released(NodeOnPath(Node(expr), path \cup {expr}), expr)

\* ------------------------------------------------------------------ *\
\* Widening and the final decision                                      *
\* ------------------------------------------------------------------ *\

\* Widen with the test of the lower limit left out.
ShouldWidenAlways(range) == TRUE

\* Try to deduce the lower bound, if it is not known already.
ShouldWiden(range) == IsDependent(range.lLimit) \/ IsUnknown(range.lLimit)

\* Widen with the range map left as it is.
KeepRangeMap(st) == st

\* GetRangeMap()->RemoveAll().
ClearRangeMap(st) == [st EXCEPT !.rmap = <<>>, !.mono = {}]

\* The recomputation begins: what the range map holds at that point.
BeginRerun(st) == [st EXCEPT !.reran = TRUE, !.atRerun = DOMAIN st.rmap]

Widen(st, block, tree, range) ==
    IF ShouldWiden(range)
    THEN (IF IsMonotonicallyIncreasing(tree, st.path)
          THEN GetRange(BeginRerun(ClearRangeMap(st)), block, tree, TRUE)
          ELSE Res(st, range))
    ELSE Res(st, range)

\* The range a.len + [0..n] accepted as upper limit: ucns > 0 is
\* rejected, ucns = 0 is not.
BetweenBoundsInclusive(range, lower, upper) ==
    LET known == optIsTreeKnownIntValue(upper)
        arrRefVN == IF IsVNArrLen(upper) THEN GetArrForLenVn(upper) ELSE NoVN
        arrSize == IF IsVNConstant(upper) THEN (IF known[1] THEN known[2] ELSE 0)
                   ELSE GetNewArrSize(arrRefVN)
        lo == range.lLimit
        hi == range.uLimit
    IN  IF ~IsVNConstant(upper) /\ ~IsVNArrLen(upper) THEN FALSE
        ELSE IF IsBinOpArray(hi)
        THEN (IF hi.vn # arrRefVN THEN FALSE
              ELSE IF hi.cns > 0 THEN FALSE
              ELSE IF IsArray(lo) THEN FALSE
              ELSE IF IsConstant(lo) /\ lo.cns >= 0 THEN TRUE
              ELSE IF arrSize <= 0 THEN FALSE
              ELSE IF IsBinOpArray(lo)
              THEN (IF lo.cns >= 0 \/ -lo.cns > arrSize THEN FALSE
                    ELSE lo.vn = arrRefVN /\ lo.cns <= hi.cns)
              ELSE FALSE)
        ELSE IF IsConstant(hi)
        THEN (IF arrSize <= 0 THEN FALSE
              ELSE IF hi.cns >= arrSize THEN FALSE
              ELSE IF IsConstant(lo) THEN lo.cns >= 0 /\ lo.cns <= hi.cns
              ELSE IF IsBinOpArray(lo)
              THEN (IF lo.cns >= 0 \/ -lo.cns > arrSize THEN FALSE
                    ELSE lo.vn = arrRefVN /\ arrSize + lo.cns <= hi.cns)
              ELSE FALSE)
        ELSE FALSE

\* An upper limit below the length of the array accepted without a look
\* at the lower limit.
BetweenBoundsAnyLower(range, lower, upper) ==
    LET known == optIsTreeKnownIntValue(upper)
        arrRefVN == IF IsVNArrLen(upper) THEN GetArrForLenVn(upper) ELSE NoVN
        arrSize == IF IsVNConstant(upper) THEN (IF known[1] THEN known[2] ELSE 0)
                   ELSE GetNewArrSize(arrRefVN)
        lo == range.lLimit
        hi == range.uLimit
    IN  IF ~IsVNConstant(upper) /\ ~IsVNArrLen(upper) THEN FALSE
        ELSE IF IsBinOpArray(hi)
        THEN hi.vn = arrRefVN /\ hi.cns < 0
        ELSE IF IsConstant(hi)
        THEN (IF arrSize <= 0 THEN FALSE
              ELSE IF hi.cns >= arrSize THEN FALSE
              ELSE IF IsConstant(lo) THEN lo.cns >= 0 /\ lo.cns <= hi.cns
              ELSE IF IsBinOpArray(lo)
              THEN (IF lo.cns >= 0 \/ -lo.cns > arrSize THEN FALSE
                    ELSE lo.vn = arrRefVN /\ arrSize + lo.cns <= hi.cns)
              ELSE FALSE)
        ELSE FALSE

\* Check if the computed range is within bounds; upper is the value
\* number of the array-length operand of the bounds check.
BetweenBounds(range, lower, upper) ==
    LET known == optIsTreeKnownIntValue(upper)
        arrRefVN == IF IsVNArrLen(upper) THEN GetArrForLenVn(upper) ELSE NoVN
        arrSize == IF IsVNConstant(upper) THEN (IF known[1] THEN known[2] ELSE 0)
                   ELSE GetNewArrSize(arrRefVN)
        lo == range.lLimit
        hi == range.uLimit
    IN  IF ~IsVNConstant(upper) /\ ~IsVNArrLen(upper) THEN FALSE
        ELSE IF IsBinOpArray(hi)
        THEN (IF hi.vn # arrRefVN THEN FALSE
              ELSE IF hi.cns >= 0 THEN FALSE
              ELSE IF IsArray(lo) THEN FALSE
              ELSE IF IsConstant(lo) /\ lo.cns >= 0 THEN TRUE
              ELSE IF arrSize <= 0 THEN FALSE
              ELSE IF IsBinOpArray(lo)
              THEN (IF lo.cns >= 0 \/ -lo.cns > arrSize THEN FALSE
                    ELSE lo.vn = arrRefVN /\ lo.cns <= hi.cns)
              ELSE FALSE)
        ELSE IF IsConstant(hi)
        THEN (IF arrSize <= 0 THEN FALSE
              ELSE IF hi.cns >= arrSize THEN FALSE
              ELSE IF IsConstant(lo) THEN lo.cns >= 0 /\ lo.cns <= hi.cns
              ELSE IF IsBinOpArray(lo)
              THEN (IF lo.cns >= 0 \/ -lo.cns > arrSize THEN FALSE
                    ELSE lo.vn = arrRefVN /\ arrSize + lo.cns <= hi.cns)
              ELSE FALSE)
        ELSE FALSE

\* ------------------------------------------------------------------ *\
\* Decision points of OptimizeRangeCheck                                *
\* ------------------------------------------------------------------ *\

\* The array size the fast path compares the index with.
FastPathArrSize(arrLenVn) ==
    IF IsVNConstant(arrLenVn)
    THEN (IF optIsTreeKnownIntValue(arrLenVn)[1] THEN optIsTreeKnownIntValue(arrLenVn)[2]
          ELSE 0)
    ELSE GetArrLength(arrLenVn)

\* Take care of constant index first, like a[2]: the step that follows.
ConstantFastDecision(idxVn, arrSize) ==
    IF IsVNConstant(idxVn) /\ arrSize > 0
    THEN (IF ~optIsTreeKnownIntValue(idxVn)[1] THEN "keep"
          ELSE IF arrSize > 0 /\ optIsTreeKnownIntValue(idxVn)[2] < arrSize
                  /\ optIsTreeKnownIntValue(idxVn)[2] >= 0
          THEN "remove"
          ELSE "range-compute")
    ELSE "range-compute"

\* The overflow check left out after the range computation.
AfterRangeSkipsOverflow(r) ==
    IF IsUnknown(r.uLimit) \/ IsUnknown(r.lLimit) THEN "keep" ELSE "widen"

\* If upper or lower limit is found to be unknown, return early.
AfterRange(r) ==
    IF IsUnknown(r.uLimit) \/ IsUnknown(r.lLimit) THEN "keep" ELSE "overflow-check"

AfterOverflow(overflows) ==
    IF overflows THEN "keep" ELSE "widen"

\* The widened range never handed to the decision.
AfterWidenStalls(r) ==
    IF IsUnknown(r.uLimit) \/ IsUnknown(r.lLimit) THEN "keep" ELSE "widened"

AfterWiden(r) ==
    IF IsUnknown(r.uLimit) \/ IsUnknown(r.lLimit) THEN "keep" ELSE "bounds-decide"

AfterBounds(between) ==
    IF between THEN "remove" ELSE "keep"

\* ------------------------------------------------------------------ *\
\* State                                                                *
\* ------------------------------------------------------------------ *\

VARIABLES
    checks,           \* the bounds checks of the method, in program order
    removed,          \* the checks optRemoveRangeCheck was invoked for
    m_nVisitBudget,
    m_pRangeMap,
    m_pOverflowMap,
    m_pCurBndsChk,
    path,             \* the SearchPath of the check in progress
    range,            \* the local "range" of OptimizeRangeCheck
    pc,               \* position of the driver
    cur,              \* position of the walk in checks
    trail,            \* the steps taken so far for the check in progress
    seen,             \* what the steps of the check in progress observed
    log,              \* per processed check: its steps and what was seen
    budget0,          \* the visit budget the pass instance started with
    run,              \* 1: first pass instance, 2: second
    mode,             \* how the second instance differs from the first
    first,            \* what the first instance left behind
    ex,               \* a concrete execution of one fragment of the method
    query             \* one function of the pass applied on its own

vars == <<checks, removed, m_nVisitBudget, m_pRangeMap, m_pOverflowMap,
          m_pCurBndsChk, path, range, pc, cur, trail, seen, log, budget0, run,
          mode, first, ex, query>>

passVars == <<removed, m_nVisitBudget, m_pRangeMap, m_pOverflowMap,
              m_pCurBndsChk, path, range, pc, cur, trail, seen, log>>

InitBudgets == (1..MaxBudget) \cup {MAX_VISIT_BUDGET}

\* Sequences of distinct fragments, of length 1..MaxChecks.
RECURSIVE SeqsOf(_)
SeqsOf(n) ==
    IF n = 0 THEN {<<>>}
    ELSE LET shorter == SeqsOf(n - 1)
         IN  shorter \cup
             {Append(q, f) : q \in {r \in shorter : Len(r) = n - 1},
                             f \in Frags}

Methods ==
    {q \in SeqsOf(MaxChecks) :
        /\ Len(q) >= 1
        /\ \A i, j \in 1..Len(q) : i # j => q[i] # q[j]}

NoRange == Range(Limit("keUndef"))

\* No function is applied on its own.
NoQuery == [fn |-> "none"]

ExIdle ==
    [st |-> "idle", f |-> "", b |-> NoBlock, prev |-> NoBlock, k |-> 0,
     len |-> 0, env |-> [v \in {"x", "i1", "i2", "i3"} |-> 0]]

NoFirst == [removed |-> {}, budget |-> 0, left |-> 0, checks |-> <<>>]

NoSeen ==
    [entry |-> 0, overflow |-> "none", between |-> "none",
     atRange |-> <<{}, {}>>, reran |-> "none", atRerun |-> {}, mono |-> {},
     lost |-> {}, miss |-> 0, again |-> 0]

\* The state of a newly constructed pass, before OptimizeRangeChecks.
Constructed(budget) ==
    /\ m_nVisitBudget = budget
    /\ m_pRangeMap = <<>>
    /\ m_pOverflowMap = <<>>
    /\ m_pCurBndsChk = ""
    /\ removed = {}
    /\ path = {}
    /\ range = NoRange
    /\ pc = "start"
    /\ cur = 1
    /\ trail = <<>>
    /\ seen = NoSeen
    /\ log = <<>>

Init ==
    /\ checks \in Methods
    /\ budget0 \in InitBudgets
    /\ Constructed(budget0)
    /\ run = 1
    /\ mode = "first"
    /\ first = NoFirst
    /\ ex = ExIdle
    /\ query = NoQuery

\* The engines' view of the pass state.
St ==
    [budget |-> m_nVisitBudget, rmap |-> m_pRangeMap, omap |-> m_pOverflowMap,
     path |-> path, chk |-> m_pCurBndsChk, mono |-> {}, reran |-> FALSE,
     atRerun |-> {}, calls |-> <<>>, lost |-> {}, miss |-> 0, again |-> 0]

Into(st) ==
    /\ m_nVisitBudget' = st.budget
    /\ m_pRangeMap' = st.rmap
    /\ m_pOverflowMap' = st.omap
    /\ path' = st.path

Step(name, to) ==
    /\ trail' = Append(trail, name)
    /\ pc' = to

YesNo(b) == IF b THEN "yes" ELSE "no"

\* What an engine call adds to the observations of the check in progress.
Observe(s, st) ==
    [s EXCEPT !.lost = s.lost \cup st.lost, !.miss = s.miss + st.miss,
              !.again = s.again + st.again]

\* ------------------------------------------------------------------ *\
\* OptimizeRangeChecks: the walk over the bounds checks of the method   *
\* ------------------------------------------------------------------ *\

\* The walk has run out of trees.
LoopDone ==
    /\ pc = "start"
    /\ cur > Len(checks)
    /\ pc' = "done"
    /\ UNCHANGED <<checks, removed, m_nVisitBudget, m_pRangeMap, m_pOverflowMap,
                   m_pCurBndsChk, path, range, cur, trail, seen, log, budget0,
                   run, mode, first, ex, query>>

\* if (IsOverBudget()) return;
LoopOverBudget ==
    /\ pc = "start"
    /\ cur <= Len(checks)
    /\ IsOverBudget(m_nVisitBudget)
    /\ pc' = "done"
    /\ UNCHANGED <<checks, removed, m_nVisitBudget, m_pRangeMap, m_pOverflowMap,
                   m_pCurBndsChk, path, range, cur, trail, seen, log, budget0,
                   run, mode, first, ex, query>>

\* OptimizeRangeCheck is entered for the next bounds check.
Enter ==
    /\ pc = "start"
    /\ cur <= Len(checks)
    /\ ~IsOverBudget(m_nVisitBudget)
    /\ m_pCurBndsChk' = checks[cur]
    /\ trail' = <<"start">>
    /\ seen' = [NoSeen EXCEPT !.entry = m_nVisitBudget]
    /\ pc' = "constant-fast"
    /\ UNCHANGED <<checks, removed, m_nVisitBudget, m_pRangeMap, m_pOverflowMap,
                   path, range, cur, log, budget0, run, mode, first, ex, query>>

\* Take care of constant index first, like a[2].
CurChk == BndsChk(m_pCurBndsChk)

FastPath(chk) ==
    Step("constant-fast",
         ConstantFastDecision(Node(chk.gtIndex).vn, FastPathArrSize(chk.gtArrLen)))

\* Take care of constant index first, like a[2].
ConstantFast ==
    /\ pc = "constant-fast"
    /\ FastPath(CurChk)
    /\ UNCHANGED <<checks, removed, m_nVisitBudget, m_pRangeMap, m_pOverflowMap,
                   m_pCurBndsChk, path, range, cur, seen, log, budget0, run, mode,
                   first, ex, query>>

\* The caches are emptied and the range of the index is computed on a
\* new search path.
RangeComputed(g, keys) ==
    /\ Into(g.st)
    /\ range' = g.r
    /\ seen' = Observe([seen EXCEPT !.atRange = keys], g.st)
    /\ Step("range-compute", AfterRange(g.r))

RangeOf(st, chk) == GetRange(st, chk.block, chk.gtIndex, FALSE)

\* The caches carried over into the range computation of the next check.
KeepCaches(st) == st

\* GetRangeMap()->RemoveAll(); GetOverflowMap()->RemoveAll().
ClearCaches(st) == [st EXCEPT !.rmap = <<>>, !.omap = <<>>]

\* SearchPath* path = new SearchPath.
NewPath(st) == [st EXCEPT !.path = {}]

\* The keys of the two caches.
CacheKeys(st) == <<DOMAIN st.rmap, DOMAIN st.omap>>

RangeCompute ==
    /\ pc = "range-compute"
    /\ RangeComputed(RangeOf(NewPath(ClearCaches(St)), CurChk),
                     CacheKeys(ClearCaches(St)))
    /\ UNCHANGED <<checks, removed, m_pCurBndsChk, cur, log, budget0, run,
                   mode, first, ex, query>>

OverflowChecked(o) ==
    /\ Into(o.st)
    /\ seen' = Observe([seen EXCEPT !.overflow = YesNo(o.r)], o.st)
    /\ Step("overflow-check", AfterOverflow(o.r))

OverflowOf(st, chk) == DoesOverflow(st, chk.block, chk.gtIndex)

OverflowCheck ==
    /\ pc = "overflow-check"
    /\ OverflowChecked(OverflowOf(St, CurChk))
    /\ UNCHANGED <<checks, removed, m_pCurBndsChk, range, cur, log, budget0, run,
                   mode, first, ex, query>>

\* path->RemoveAll(); Widen(...).
Widened(w) ==
    /\ Into(w.st)
    /\ range' = w.r
    /\ seen' = Observe([seen EXCEPT !.reran = YesNo(w.st.reran),
                                    !.atRerun = w.st.atRerun, !.mono = w.st.mono],
                       w.st)
    /\ Step("widen", AfterWiden(w.r))

WidenOf(st, chk) == Widen(st, chk.block, chk.gtIndex, range)

WidenStep ==
    /\ pc = "widen"
    /\ Widened(WidenOf([St EXCEPT !.path = {}], CurChk))
    /\ UNCHANGED <<checks, removed, m_pCurBndsChk, cur, log, budget0, run, mode,
                   first, ex, query>>

\* Is the range between the lower and upper bound values.
BoundsDecided(between) ==
    /\ seen' = [seen EXCEPT !.between = YesNo(between)]
    /\ Step("bounds-decide", AfterBounds(between))

BoundsDecide ==
    /\ pc = "bounds-decide"
    /\ BoundsDecided(BetweenBounds(range, 0, CurChk.gtArrLen))
    /\ UNCHANGED <<checks, removed, m_nVisitBudget, m_pRangeMap, m_pOverflowMap,
                   m_pCurBndsChk, path, range, cur, log, budget0, run, mode,
                   first, ex, query>>

Logged(name) ==
    [trail |-> Append(trail, name), seen |-> seen, range |-> range,
     budget |-> m_nVisitBudget]

\* optRemoveRangeCheck is invoked and OptimizeRangeCheck returns.
Remove ==
    /\ pc = "remove"
    /\ removed' = removed \cup {m_pCurBndsChk}
    /\ log' = (m_pCurBndsChk :> Logged("remove")) @@ log
    /\ cur' = cur + 1
    /\ Step("remove", "start")
    /\ UNCHANGED <<checks, m_nVisitBudget, m_pRangeMap, m_pOverflowMap,
                   m_pCurBndsChk, path, range, seen, budget0, run, mode, first, ex, query>>

\* OptimizeRangeCheck returns without touching the IR.
Keep ==
    /\ pc = "keep"
    /\ log' = (m_pCurBndsChk :> Logged("keep")) @@ log
    /\ cur' = cur + 1
    /\ Step("keep", "start")
    /\ UNCHANGED <<checks, removed, m_nVisitBudget, m_pRangeMap, m_pOverflowMap,
                   m_pCurBndsChk, path, range, seen, budget0, run, mode, first, ex, query>>

Pass ==
    \/ LoopDone
    \/ LoopOverBudget
    \/ Enter
    \/ ConstantFast
    \/ RangeCompute
    \/ OverflowCheck
    \/ WidenStep
    \/ BoundsDecide
    \/ Remove
    \/ Keep

\* ------------------------------------------------------------------ *\
\* A second pass instance over the same method                          *
\* ------------------------------------------------------------------ *\

RECURSIVE Reverse(_)
Reverse(q) == IF q = <<>> THEN <<>> ELSE Append(Reverse(Tail(q)), Head(q))

Kept(f) == f \notin removed

\* The next lower initial budget.
LowerBudget(b) == IF b = MAX_VISIT_BUDGET THEN MaxBudget ELSE b - 1

Construct(budget) ==
    /\ m_nVisitBudget' = budget
    /\ budget0' = budget
    /\ m_pRangeMap' = <<>>
    /\ m_pOverflowMap' = <<>>
    /\ m_pCurBndsChk' = ""
    /\ removed' = {}
    /\ path' = {}
    /\ range' = NoRange
    /\ pc' = "start"
    /\ cur' = 1
    /\ trail' = <<>>
    /\ seen' = NoSeen
    /\ log' = <<>>

SecondRun ==
    /\ pc = "done"
    /\ run = 1
    /\ run' = 2
    /\ first' = [removed |-> removed, budget |-> budget0, left |-> m_nVisitBudget,
                 checks |-> checks]
    /\ UNCHANGED <<ex, query>>
    /\ \/ \* a new instance runs on the IR the first one left
          /\ mode' = "rerun"
          /\ checks' = SelectSeq(checks, Kept)
          /\ Construct(budget0)
       \/ \* a new instance runs on the original IR with a lower budget
          /\ LowerBudget(budget0) >= 1
          /\ mode' = "budget"
          /\ checks' = checks
          /\ Construct(LowerBudget(budget0))
       \/ \* a new instance visits the checks of the original IR in reverse
          /\ mode' = "reverse"
          /\ checks' = Reverse(checks)
          /\ Construct(budget0)

Next ==
    \/ Pass
    \/ SecondRun

Spec == Init /\ [][Next]_vars

\* ------------------------------------------------------------------ *\
\* The scenario methods under one pass instance                         *
\* ------------------------------------------------------------------ *\

ScenarioFrags == Scenarios \cup {"inc"}

\* Sequences of scenario fragments, of length 0..n.
RECURSIVE ScenarioSeqs(_)
ScenarioSeqs(n) ==
    IF n = 0 THEN {<<>>}
    ELSE LET shorter == ScenarioSeqs(n - 1)
         IN  shorter \cup
             {Append(q, f) : q \in {r \in shorter : Len(r) = n - 1},
                             f \in ScenarioFrags}

ScenarioMethods ==
    {q \in ScenarioSeqs(MaxChecks) :
        /\ Len(q) >= 1
        /\ \A i, j \in 1..Len(q) : i # j => q[i] # q[j]}

InitScenario ==
    /\ checks \in ScenarioMethods
    /\ budget0 \in InitBudgets
    /\ Constructed(budget0)
    /\ run = 1
    /\ mode = "first"
    /\ first = NoFirst
    /\ ex = ExIdle
    /\ query = NoQuery

NextScenario ==
    \/ Pass /\ UNCHANGED <<checks, budget0, run, mode, first, ex, query>>

SpecScenario == InitScenario /\ [][NextScenario]_vars

\* The positions of the driver that have code to run.
Positions ==
    {"start", "constant-fast", "range-compute", "overflow-check", "widen",
     "bounds-decide", "keep", "remove"}

\* The driver moves from a position that has code to its next position.
Proceeds == pc \in Positions /\ pc' \in Positions \cup {"done"}

\* The driver is a sequential loop on one thread: it does not stay
\* forever at a position that has code.
LiveScenario == SpecScenario /\ WF_pc(Proceeds)

\* ------------------------------------------------------------------ *\
\* Execution of a fragment of the compiled method                       *
\* ------------------------------------------------------------------ *\

\* The values an input (the result of a call) may take.
InputVals == {0, 1}

\* The lengths the array of fragment f may have at run time.
Lens(f) ==
    IF NewArrSize[Frag[f].arr] > 0 THEN {NewArrSize[Frag[f].arr]} ELSE 0..MaxLen

\* The phi argument that flows in from the block executed before.
PhiArgFrom(args, prev) ==
    args[CHOOSE i \in 1..Len(args) : Node(args[i]).pred = prev]

RECURSIVE Eval(_, _, _)

EvalNode(t, env, prev) ==
    CASE t.oper = "GT_CNS_INT" -> t.icon
      [] t.oper \in {"GT_LCL_VAR", "GT_PHI_ARG"} -> env[t.ssa[2]]
      [] t.oper = "GT_ADD" -> Eval(t.op1, env, prev) + Eval(t.op2, env, prev)
      [] t.oper = "GT_PHI" -> Eval(PhiArgFrom(t.args, prev), env, prev)

\* The value of tree n in the environment env.
Eval(n, env, prev) == EvalNode(Node(n), env, prev)

CondBound(c, len) == IF c.arr = "" THEN c.c ELSE len + c.c

CondHolds(c, env, len) ==
    CASE c.oper = "GT_GE" -> env[c.ssa[2]] >= CondBound(c, len)
      [] c.oper = "GT_LT" -> env[c.ssa[2]] < CondBound(c, len)

ExBlock == BasicBlock(ex.b)

ExStmt == ExBlock.stmts[ex.k]

AtStmt(kind) ==
    /\ ex.st = "run"
    /\ ex.k <= Len(ExBlock.stmts)
    /\ ExStmt.t = kind

\* The index the bounds check about to execute is given.
ExIndex == Eval(BndsChk(ex.f).gtIndex, ex.env, ex.prev)

ExecStart ==
    /\ pc = "done"
    /\ ex.st = "idle"
    /\ \E i \in 1..Len(checks) : \E len \in Lens(checks[i]) :
          ex' = [ExIdle EXCEPT !.st = "run", !.f = checks[i],
                               !.b = <<checks[i], "B0">>, !.k = 1, !.len = len]
    /\ UNCHANGED <<checks, passVars, budget0, run, mode, first, query>>

Assigned(name, v) ==
    ex' = [ex EXCEPT !.env = [ex.env EXCEPT ![name] = v], !.k = ex.k + 1]

ExecAsg ==
    /\ AtStmt("asg")
    /\ IF Node(DefOf(ExStmt.ssa).op2).oper = "GT_CALL"
       THEN \E v \in InputVals : Assigned(ExStmt.ssa[2], v)
       ELSE Assigned(ExStmt.ssa[2], Eval(DefOf(ExStmt.ssa).op2, ex.env, ex.prev))
    /\ UNCHANGED <<checks, passVars, budget0, run, mode, first, query>>

\* A bounds check that was removed tests nothing; one that was kept
\* throws when the index is not within the array.
ExecChk ==
    /\ AtStmt("chk")
    /\ IF ex.f \in removed \/ (0 <= ExIndex /\ ExIndex < ex.len)
       THEN ex' = [ex EXCEPT !.k = ex.k + 1]
       ELSE ex' = [ex EXCEPT !.st = "thrown"]
    /\ UNCHANGED <<checks, passVars, budget0, run, mode, first, query>>

BranchTarget(b) ==
    CASE b.bbJumpKind = "BBJ_ALWAYS" -> b.bbJumpDest
      [] b.bbJumpKind = "BBJ_COND" ->
            IF CondHolds(b.cond, ex.env, ex.len) THEN b.bbJumpDest ELSE b.bbNext
      [] OTHER -> b.bbNext

ExecBranch ==
    /\ ex.st = "run"
    /\ ex.k > Len(ExBlock.stmts)
    /\ ExBlock.bbJumpKind # "BBJ_RETURN"
    /\ ex' = [ex EXCEPT !.b = BranchTarget(ExBlock), !.prev = ex.b, !.k = 1]
    /\ UNCHANGED <<checks, passVars, budget0, run, mode, first, query>>

ExecReturn ==
    /\ ex.st = "run"
    /\ ex.k > Len(ExBlock.stmts)
    /\ ExBlock.bbJumpKind = "BBJ_RETURN"
    /\ ex' = [ex EXCEPT !.st = "end"]
    /\ UNCHANGED <<checks, passVars, budget0, run, mode, first, query>>

Exec ==
    \/ ExecStart
    \/ ExecAsg
    \/ ExecChk
    \/ ExecBranch
    \/ ExecReturn

NextExec ==
    \/ Pass
    \/ Exec

\* The pass over a method, followed by an execution of the method.
SpecExec == Init /\ [][NextExec]_vars

\* What an assertion says about the run-time value v of its local.
AssertedBound(a, len) ==
    CASE a.shape = "ConstantBound" -> a.constVal
      [] a.shape = "ArrLenBound" -> len
      [] a.shape = "ArrLenArithBound" ->
            IF a.arrOper = "GT_SUB" THEN len - ConstantValue(a.arrOp)
            ELSE len + ConstantValue(a.arrOp)

Compares(v, oper, bound) ==
    CASE oper = "GT_LT" -> v < bound
      [] oper = "GT_LE" -> v <= bound
      [] oper = "GT_GT" -> v > bound
      [] oper = "GT_GE" -> v >= bound

AssertionTrue(a, env, len) ==
    Compares(env[a.cmpOp.id[2]], a.cmpOper, AssertedBound(a, len))
        = (a.assertionKind = "OAK_NOT_EQUAL")

\* The assertions flowing into a block hold whenever the block is entered.
AssertionsValid ==
    (ex.st = "run" /\ ex.k = 1) =>
        \A i \in 1..Len(ExBlock.bbAssertionIn) :
            AssertionTrue(ExBlock.bbAssertionIn[i], ex.env, ex.len)

\* ------------------------------------------------------------------ *\
\* Properties                                                           *
\* ------------------------------------------------------------------ *\

\* The steps of a check that went through the whole analysis.
FullTrail ==
    <<"start", "constant-fast", "range-compute", "overflow-check", "widen",
      "bounds-decide">>

\* The steps of a check settled by the constant fast path.
FastTrail == <<"start", "constant-fast">>

\* Fragment f indexes an array of known size with a constant.
ConstantIndex(f) == Frag[f].shape = "k" /\ NewArrSize[Frag[f].arr] > 0

\* The constant index of f is a 32-bit constant within the array.
ConstantIndexInRange(f) ==
    /\ ConstantIndex(f)
    /\ ~Frag[f].long
    /\ 0 <= Frag[f].c0
    /\ Frag[f].c0 < NewArrSize[Frag[f].arr]

\* C1: every bounds check the pass removed is given, on every execution
\* of the method, an index i with 0 <= i < length of the array.
C1_Soundness ==
    (AtStmt("chk") /\ ex.f \in removed) => (0 <= ExIndex /\ ExIndex < ex.len)

\* C2 as stated: the removal primitive is reached only from bounds-decide
\* with a positive BetweenBounds verdict, after range-compute,
\* overflow-check and widen, and from no other state.
C2_RemoveOnlyFromBoundsDecide ==
    pc = "remove" =>
        (trail = FullTrail /\ BetweenBounds(range, 0, CurChk.gtArrLen))

\* C2 amended: the removal primitive is reached only from bounds-decide
\* with a positive BetweenBounds verdict after the whole analysis, or from
\* the constant fast path for a constant index within a constant size.
C2_RemoveOnlyByDecision ==
    pc = "remove" =>
        \/ (trail = FullTrail /\ BetweenBounds(range, 0, CurChk.gtArrLen))
        \/ (trail = FastTrail /\ ConstantIndexInRange(m_pCurBndsChk))

C2_Witness ==
    pc = "remove" /\ trail = FullTrail /\ m_pCurBndsChk = "inc"

\* C3: with a constant index c1 and a constant array size c2, the fast
\* path removes the check when 0 <= c1 < c2, without clearing the caches,
\* computing a range or changing the budget; when c1 < 0 or c1 >= c2 the
\* fast path does not remove it.
C3_ConstantFastPath ==
    [][/\ (pc = "constant-fast" /\ ConstantIndexInRange(m_pCurBndsChk)) =>
            (pc' = "remove"
             /\ UNCHANGED <<m_pRangeMap, m_pOverflowMap, m_nVisitBudget>>)
       /\ (pc = "remove" /\ trail = FastTrail) =>
            (m_nVisitBudget = seen.entry
             /\ UNCHANGED <<m_pRangeMap, m_pOverflowMap, m_nVisitBudget>>)
       /\ (pc = "constant-fast" /\ ConstantIndex(m_pCurBndsChk)
           /\ ~Frag[m_pCurBndsChk].long
           /\ ~ConstantIndexInRange(m_pCurBndsChk)) => pc' # "remove"]_vars

C3_Witness ==
    pc = "remove" /\ trail = FastTrail /\ m_pCurBndsChk = "f3" /\ m_pRangeMap # <<>>

\* C4: if the visit budget becomes exhausted while a bounds check is being
\* processed, the decision for that check is keep: no check is removed
\* with an exhausted budget.
C4_OverBudgetKeeps ==
    pc = "remove" => m_nVisitBudget > 0

\* C5: once the visit budget is exhausted, the driver enters no further
\* check, returns normally, and every check it had not yet processed is
\* retained.
C5_ExhaustedSkipsRest ==
    [][/\ (pc = "start" /\ m_nVisitBudget <= 0) =>
            (pc' = "done" /\ removed' = removed /\ cur' = cur)
       /\ (pc \in {"start", "done"} /\ m_nVisitBudget <= 0) =>
            (\A i \in cur..Len(checks) : checks[i] \notin removed)]_vars

C5_Witness ==
    /\ pc = "done"
    /\ m_nVisitBudget <= 0
    /\ cur <= Len(checks)
    /\ checks[cur] = "f1"

\* C6: a bounds check whose index has a 64-bit type (LONG or ULONG) is
\* never removed.
C6_LongIndexKept ==
    \A f \in removed : Node(BndsChk(f).gtIndex).type \notin {"TYP_LONG", "TYP_ULONG"}

C6_Witness ==
    /\ "lg" \in DOMAIN log
    /\ "range-compute" \in {log["lg"].trail[i] : i \in DOMAIN log["lg"].trail}
    /\ "lg" \notin removed

\* C7: if DoesOverflow on the index returns true, the check is retained,
\* and neither widening nor BetweenBounds is attempted for it.
C7_OverflowRetains ==
    seen.overflow = "yes" =>
        /\ pc \notin {"widen", "bounds-decide", "remove"}
        /\ \A i \in DOMAIN trail : trail[i] \notin {"widen", "bounds-decide", "remove"}
        /\ m_pCurBndsChk \notin removed

C7_Witness ==
    seen.overflow = "yes" /\ pc = "keep" /\ m_pCurBndsChk = "ov"

\* C8: for the same method and visit budgets b' <= b, the checks removed
\* with budget b' are a subset of those removed with budget b.
C8_BudgetMonotone ==
    (run = 2 /\ mode = "budget" /\ pc = "done") => removed \subseteq first.removed

\* C9 as stated: a second run on the IR left by the first removes nothing
\* further, including when the first run exhausted its budget.
C9_SecondRunRemovesNothing ==
    (run = 2 /\ mode = "rerun") => removed = {}

\* C9 amended: when the first run did not exhaust its budget, a second
\* run on the IR it left removes nothing further.
C9_SecondRunAfterCompleteFirst ==
    (run = 2 /\ mode = "rerun" /\ first.left > 0) => removed = {}

C9_Witness ==
    /\ run = 2
    /\ mode = "rerun"
    /\ pc = "done"
    /\ first.left > 0
    /\ first.removed # {}
    /\ DOMAIN log # {}

\* C10: as long as the budget is not exhausted, visiting the checks in
\* the reverse order removes the same set of checks.
C10_OrderIrrelevant ==
    (run = 2 /\ mode = "reverse" /\ pc = "done" /\ first.left > 0 /\ m_nVisitBudget > 0)
        => removed = first.removed

C10_Witness ==
    /\ run = 2
    /\ mode = "reverse"
    /\ pc = "done"
    /\ first.left > 0
    /\ m_nVisitBudget > 0
    /\ Len(checks) > 1
    /\ removed # {}
    /\ removed # {checks[i] : i \in DOMAIN checks}

\* ------------------------------------------------------------------ *\
\* Scenarios                                                            *
\* ------------------------------------------------------------------ *\

\* [0, a.Length - 1] for the array of fragment f.
ZeroToLenMinusOne(f) ==
    [lLimit |-> LimitC(0),
     uLimit |-> LimitV("keBinOpArray", ArrVN(DescOf(f).arr), -1)]

\* The steps of the check in progress, without the final keep / remove.
StepsTaken == SelectSeq(trail, LAMBDA x : x \notin {"keep", "remove"})

Processed(f) == f \in DOMAIN log

\* C11: for i = call(); if (i >= 0 && i < a.len) a[i], with the two
\* assertions on the edge into the use, the check on a[i] is removed
\* whenever the pass processes it with the default budget.
C11_GuardedIndexRemoved ==
    (pc = "done" /\ budget0 = MAX_VISIT_BUDGET /\ Processed("g")) => "g" \in removed

\* C11 amended: the check on a[i] is never removed.  When its overflow
\* step is reached the range is [0, a.len - 1], DoesOverflow answers true
\* and the check is kept without widening or a BetweenBounds decision.
C11_GuardedIndexKept ==
    /\ "g" \notin removed
    /\ (m_pCurBndsChk = "g" /\ "overflow-check" \in {trail[i] : i \in DOMAIN trail})
          => /\ range = ZeroToLenMinusOne("g")
             /\ seen.overflow = "yes"
             /\ pc \in {"keep", "start", "done"}
             /\ "widen" \notin {trail[i] : i \in DOMAIN trail}

C11_Witness ==
    /\ Processed("g")
    /\ log["g"].range = ZeroToLenMinusOne("g")
    /\ log["g"].seen.overflow = "yes"
    /\ log["g"].trail = <<"start", "constant-fast", "range-compute", "overflow-check",
                          "keep">>

\* C12: for for (i = 0; i < a.len; i++) a[i] the first range of the index
\* has a Dependent lower limit, the index is monotonically increasing,
\* the widened range is [0, a.len - 1], and the check is removed whenever
\* the budget is not exhausted on it.
C12_IncreasingLoopRemoved ==
    /\ IsMonotonicallyIncreasing(BndsChk("inc").gtIndex, {})
    /\ (m_pCurBndsChk = "inc" /\ pc \in {"overflow-check", "widen"})
          => IsDependent(range.lLimit)
    /\ (m_pCurBndsChk = "inc" /\ pc = "bounds-decide")
          => (seen.reran = "yes" /\ range = ZeroToLenMinusOne("inc"))
    /\ (Processed("inc") /\ log["inc"].budget > 0) => "inc" \in removed

C12_Witness ==
    /\ Processed("inc")
    /\ "inc" \in removed
    /\ log["inc"].seen.reran = "yes"
    /\ log["inc"].range = ZeroToLenMinusOne("inc")

\* The loops that add a negative constant in their phi cycle.
Decreasing == {f \in Scenarios : DescOf(f).shape \in {"loop", "down"} /\ DescOf(f).step < 0}

\* C13: a check whose index runs through a phi cycle that adds a negative
\* constant is retained: its range is never recomputed by widening and
\* it is never removed.
C13_DecreasingLoopKept ==
    \A f \in Decreasing :
        /\ f \notin removed
        /\ m_pCurBndsChk = f => seen.reran # "yes"

\* C14: for the nested loops with a[i + j] on an array of unknown
\* length, both operands have upper limit a.len - 1 when the budget is
\* not exhausted, DoesOverflow on i + j answers true on the caches the
\* range computation left, and the check is never removed.
C14_SumOfIndicesKept ==
    /\ "sum" \notin removed
    /\ (m_pCurBndsChk = "sum" /\ pc = "keep")
          => /\ DoesOverflow(St, CurChk.block, CurChk.gtIndex).r
             /\ m_nVisitBudget > 0
                   => /\ m_pRangeMap[<<"sum", "ui">>].uLimit = ZeroToLenMinusOne("sum").uLimit
                      /\ m_pRangeMap[<<"sum", "uj">>].uLimit = ZeroToLenMinusOne("sum").uLimit

C14_Witness ==
    /\ m_pCurBndsChk = "sum"
    /\ pc = "keep"
    /\ m_nVisitBudget > 0
    /\ <<"sum", "ui">> \in DOMAIN m_pRangeMap
    /\ <<"sum", "uj">> \in DOMAIN m_pRangeMap
    /\ GetNewArrSize(ArrVN(DescOf("sum").arr)) = 0

\* ------------------------------------------------------------------ *\
\* The driver and its caches                                            *
\* ------------------------------------------------------------------ *\

\* C15: the processing of every bounds check terminates and the pass
\* eventually returns, also on methods with phi cycles and nested phi
\* cycles.
C15_PassReturns == <>(pc = "done")

C15_Witness ==
    /\ pc = "done"
    /\ Processed("sum")
    /\ Processed("inc")
    /\ log["inc"].seen.reran = "yes"

\* C16: the steps of a check are taken in the order constant-fast,
\* range-compute (which begins with the cache clear), overflow-check,
\* widen, bounds-decide, each at most once; the check in progress is at
\* the step that follows the last one taken, or has ended in keep or
\* remove, and remove follows only one of the two deciding steps.
C16_StepOrder ==
    /\ Len(StepsTaken) <= Len(FullTrail)
    /\ \A i \in DOMAIN StepsTaken : StepsTaken[i] = FullTrail[i]
    /\ pc \in {"constant-fast", "range-compute", "overflow-check", "widen",
               "bounds-decide"}
          => (Len(trail) < Len(FullTrail) /\ pc = FullTrail[Len(trail) + 1])
    /\ pc = "remove" => trail[Len(trail)] \in {"constant-fast", "bounds-decide"}
    /\ pc \in {"start", "done", "keep", "remove", "constant-fast", "range-compute",
               "overflow-check", "widen", "bounds-decide"}

C16_Witness ==
    /\ pc = "keep"
    /\ trail = FullTrail

\* C17: whenever the first GetRange of a bounds check begins, the range
\* cache and the overflow cache are empty.
C17_NoCacheLeak == seen.atRange = <<{}, {}>>

C17_Witness ==
    /\ cur = 2
    /\ pc = "overflow-check"
    /\ Processed(checks[1])
    /\ "overflow-check" \in {log[checks[1]].trail[i] : i \in DOMAIN log[checks[1]].trail}
    /\ m_pRangeMap # <<>>

\* C18: the recomputation with monotonic = true begins on an empty range
\* cache, and after it every entry of the range cache was computed with
\* monotonic = true; without a recomputation no entry was.
C18_WidenOnCleanCache ==
    /\ seen.reran = "yes" => (seen.atRerun = {} /\ seen.mono = DOMAIN m_pRangeMap)
    /\ seen.reran # "yes" => seen.mono = {}

C18_Witness ==
    /\ seen.reran = "yes"
    /\ pc = "bounds-decide"
    /\ Cardinality(seen.mono) > 1

\* C19: the widen step is taken at most once per check; it recomputes
\* the range only when the lower limit of the first range is Dependent
\* or Unknown and the index is monotonically increasing, and otherwise
\* leaves the range and the range cache as they are.
C19_WidenOnce ==
    [][pc = "widen" =>
          /\ "widen" \notin {trail[i] : i \in DOMAIN trail}
          /\ seen'.reran = "yes"
                => /\ IsDependent(range.lLimit) \/ IsUnknown(range.lLimit)
                   /\ IsMonotonicallyIncreasing(CurChk.gtIndex, {})
          /\ seen'.reran # "yes"
                => /\ range' = range
                   /\ m_pRangeMap' = m_pRangeMap
                   /\ ~(/\ IsDependent(range.lLimit) \/ IsUnknown(range.lLimit)
                        /\ IsMonotonicallyIncreasing(CurChk.gtIndex, {}))]_vars

C19_Witness ==
    /\ pc = "bounds-decide"
    /\ seen.reran = "no"
    /\ IsConstant(range.lLimit)
    /\ IsMonotonicallyIncreasing(CurChk.gtIndex, {})

C21_GuardAccurate == seen.lost = {}

\* The check in progress has been entered and has not returned.
InCheck == pc \notin {"start", "done"}

\* C22: while a check is processed the visit budget has gone down by
\* exactly the number of GetRange calls that did not find their
\* expression in the range map.
C22_EveryMissCharged == InCheck => seen.entry - m_nVisitBudget = seen.miss

\* The budget spent on the check in progress, and cache hits.
Accounted ==
    /\ InCheck => seen.entry - m_nVisitBudget = seen.miss - seen.again
    /\ pc \in {"overflow-check", "widen", "bounds-decide"} =>
          \A expr \in DOMAIN m_pRangeMap :
              /\ GetRange(St, CurChk.block, expr, FALSE).st = St
              /\ GetRange(St, CurChk.block, expr, FALSE).r = m_pRangeMap[expr]

\* C22 amended: the visit budget has gone down by the number of GetRange
\* calls that missed the range map less those that found their
\* expression on the search path; a GetRange call on a cached expression
\* leaves the budget and the range map as they are; no step of a pass
\* instance raises the budget, so a check is entered with the budget
\* the previous one left.
C22_BudgetAccounting ==
    /\ []Accounted
    /\ [][run' = run => m_nVisitBudget' <= m_nVisitBudget]_vars

C22_Witness ==
    /\ pc = "overflow-check"
    /\ seen.again > 0
    /\ seen.miss > seen.again
    /\ m_pRangeMap # <<>>
    /\ m_nVisitBudget > 0
    /\ cur = 2

\* ------------------------------------------------------------------ *\
\* A local without a definition                                         *
\* ------------------------------------------------------------------ *\

\* The first GetRange of the check in progress has just returned.
RangeReturned == trail # <<>> /\ trail[Len(trail)] = "range-compute"

MergeLocals == {OpqVN("i"), OpqVN("j")}

\* The array of the bounds check is "P"; "A5" is another array.
MergeArrays == {"P", "A5"}

MergeConstants == {INT_MIN, 0, 5, ARRLEN_MAX}

MergeLimits ==
    {Limit("keUnknown"), Limit("keDependent"), LimitC(0), LimitC(5)}
    \cup {LimitV("keArray", ArrVN(v), 0) : v \in MergeArrays}
    \cup {LimitV("keBinOpArray", ArrVN(v), c) : v \in MergeArrays, c \in {-1, 1}}

MergedInto == {[lLimit |-> l, uLimit |-> u] : l \in MergeLimits, u \in MergeLimits}

MergeRelops == {"GT_LT", "GT_LE", "GT_GT", "GT_GE", "GT_EQ", "GT_NE"}

MergeKinds == {"OAK_EQUAL", "OAK_NOT_EQUAL"}

\* An assertion whose second operand is not the zero of TYP_INT.
NotAgainstZero(a) == [a EXCEPT !.op2 = CnsVN("TYP_INT", 1)]

MergeAssertions ==
    {AConstantBound(vn, op, c, k) :
        vn \in MergeLocals, op \in MergeRelops, c \in MergeConstants, k \in MergeKinds}
    \cup {AArrLenBound(OpqVN("i"), op, v, k) :
             op \in MergeRelops, v \in MergeArrays, k \in MergeKinds}
    \cup {NotAgainstZero(AArrLenBound(OpqVN("i"), op, "P", k)) :
             op \in MergeRelops, k \in MergeKinds}
    \cup {AArrLenArithBound(OpqVN("i"), op, v, arrOper, CnsVN("TYP_INT", 1), k) :
             op \in MergeRelops, v \in MergeArrays, arrOper \in {"GT_SUB", "GT_ADD"},
             k \in MergeKinds}
    \cup {AArrLenArithBound(OpqVN("i"), op, "P", "GT_SUB", OpqVN("n"), "OAK_NOT_EQUAL") :
             op \in MergeRelops}

\* The array-length operand of the bounds check: the length of "P", or a
\* length folded to a constant.
MergeArrLens == {LenVN("P"), CnsVN("TYP_INT", 3)}

MergeQuery(a, arrLenVN, r) ==
    [fn |-> "merge", a |-> a, lclVn |-> OpqVN("i"), arrLenVN |-> arrLenVN,
     range |-> r, done |-> FALSE, out |-> r]

InitMerge ==
    /\ checks = <<>>
    /\ budget0 = MAX_VISIT_BUDGET
    /\ Constructed(budget0)
    /\ run = 1
    /\ mode = "first"
    /\ first = NoFirst
    /\ ex = ExIdle
    /\ query \in {MergeQuery(a, n, r) :
                      a \in MergeAssertions, n \in MergeArrLens, r \in MergedInto}

\* One iteration of the loop of MergeEdgeAssertions on the range.
MergeApply ==
    /\ query.fn = "merge"
    /\ ~query.done
    /\ query' = [query EXCEPT
                    !.out = MergeOneAssertion(query.a, query.lclVn, query.arrLenVN,
                                              query.range),
                    !.done = TRUE]
    /\ UNCHANGED <<checks, passVars, budget0, run, mode, first, ex>>

NextMerge == MergeApply

SpecMerge == InitMerge /\ [][NextMerge]_vars

\* The assertion of the query has been merged.
Merged == query.fn = "merge" /\ query.done

\* The limit of the assertion of the query, before the adjustment.
QLimit == AssertionLimit(query.a, query.lclVn)[2]

\* The relop of the assertion of the query, reversed when the assertion
\* says that the predicate is false.
QRelop ==
    IF query.a.assertionKind = "OAK_EQUAL" THEN ReverseRelop(query.a.cmpOper)
    ELSE query.a.cmpOper

\* The array of the bounds check of the query.
QArrRef == GetArrForLenVn(query.arrLenVN)

\* The assertion of the query is one the merger looks at: a recognised
\* bound on the local of the range, compared with zero.
QMatches ==
    /\ query.a.cmpOp = query.lclVn
    /\ query.a.op2 = VNZeroForType
    /\ ~IsUndef(QLimit)

\* C24: when the upper limit of the range is a Constant and the limit of
\* the assertion is Array(v) or BinOpArray(v, c), for any array v, the
\* array of the bounds check included, the range is left unchanged.
C24_ConstantUpperDiscards ==
    (Merged /\ QMatches /\ IsConstant(query.range.uLimit)
        /\ (IsArray(QLimit) \/ IsBinOpArray(QLimit)))
    => query.out = query.range

\* The limit l moved by c.
Moved(l, c) ==
    IF IsArray(l) THEN LimitV("keBinOpArray", l.vn, c)
    ELSE [l EXCEPT !.cns = l.cns + c]

\* C24 amended: when the upper limit of the range is a Constant and the
\* limit of the assertion is Array(v) or BinOpArray(v, c), the range is
\* left unchanged if v is not the array of the bounds check being
\* processed; if v is that array the assertion is applied: < and <=
\* replace the constant upper limit by the limit on the array length (less
\* one for <), > and >= replace the lower limit (plus one for >).
C24_ConstantUpperAgainstArray ==
    (Merged /\ QMatches /\ IsConstant(query.range.uLimit)
        /\ (IsArray(QLimit) \/ IsBinOpArray(QLimit)))
    => query.out =
         (CASE QLimit.vn # QArrRef -> query.range
            [] QLimit.vn = QArrRef /\ QRelop = "GT_LT" ->
                  [query.range EXCEPT !.uLimit = Moved(QLimit, -1)]
            [] QLimit.vn = QArrRef /\ QRelop = "GT_LE" ->
                  [query.range EXCEPT !.uLimit = QLimit]
            [] QLimit.vn = QArrRef /\ QRelop = "GT_GT" ->
                  [query.range EXCEPT !.lLimit = Moved(QLimit, 1)]
            [] QLimit.vn = QArrRef /\ QRelop = "GT_GE" ->
                  [query.range EXCEPT !.lLimit = QLimit]
            [] OTHER -> query.range)

C24_Witness ==
    /\ Merged /\ QMatches
    /\ query.range.uLimit = LimitC(5)
    /\ QLimit = LimitV("keArray", ArrVN("P"), 0)
    /\ QArrRef = ArrVN("P")
    /\ query.out.uLimit = LimitV("keBinOpArray", ArrVN("P"), -1)

\* The lower limit new is demonstrably tighter than old: a larger constant,
\* a larger offset from the length of the same array, or any concrete
\* limit in the place of Unknown or Dependent.
TightensLower(old, new) ==
    \/ IsUnknown(old) \/ IsDependent(old)
    \/ IsConstant(old) /\ IsConstant(new) /\ new.cns > old.cns
    \/ /\ IsArray(old) \/ IsBinOpArray(old)
       /\ IsArray(new) \/ IsBinOpArray(new)
       /\ new.vn = old.vn
       /\ LimitCns(new) > LimitCns(old)

\* The lower limit is replaced only by a tighter one.
LowerOnlyTightened ==
    (Merged /\ query.out.lLimit # query.range.lLimit)
    => TightensLower(query.range.lLimit, query.out.lLimit)

\* The lower limit after the merge is the same under every upper limit.
LowerIgnoresUpper ==
    Merged =>
        \A u \in MergeLimits :
            MergeOneAssertion(query.a, query.lclVn, query.arrLenVN,
                              [query.range EXCEPT !.uLimit = u]).lLimit
                = query.out.lLimit

\* C25: an assertion with > or >= replaces the lower limit only if the new
\* limit demonstrably tightens it (Constant(5) is never replaced by
\* Constant(0)), and whether it is applied does not depend on the upper
\* limit of the range.
C25_LowerTightening ==
    /\ LowerOnlyTightened
    /\ LowerIgnoresUpper

\* The range the inclusive-bound translation gives for the limit L of the
\* query and the relop op.
Translated(op) ==
    CASE op = "GT_LT" -> [query.range EXCEPT !.uLimit = Moved(QLimit, -1)]
      [] op = "GT_LE" -> [query.range EXCEPT !.uLimit = QLimit]
      [] op = "GT_GT" -> [query.range EXCEPT !.lLimit = Moved(QLimit, 1)]
      [] op = "GT_GE" -> [query.range EXCEPT !.lLimit = QLimit]
      [] OTHER -> query.range

\* L - 1 for <, L + 1 for >, is not a 32-bit signed integer.
NotRepresentable(op) ==
    \/ op = "GT_LT" /\ ~IsArray(QLimit) /\ QLimit.cns = INT_MIN
    \/ op = "GT_GT" /\ ~IsArray(QLimit) /\ QLimit.cns = ARRLEN_MAX

\* The limit the tightening tests of the merger look at.
QAdjusted ==
    CASE QRelop = "GT_LT" -> Moved(QLimit, -1)
      [] QRelop = "GT_GT" -> Moved(QLimit, 1)
      [] OTHER -> QLimit

\* C26: for a matching assertion with limit L, the operator reversed when
\* the assertion says that the predicate is 0: if L - 1 (for <) or L + 1
\* (for >) is not representable in 32 bits the range is unchanged;
\* otherwise, when the assertion is not skipped by the tightening tests,
\* < sets the upper limit to L - 1, <= to L, > sets the lower limit to
\* L + 1, >= to L, and every other operator leaves the range unchanged;
\* (i < a.len) != 0 gives the upper limit BinOpArray(a, -1).
C26_InclusiveBounds ==
    /\ (Merged /\ QMatches) =>
          query.out = IF NotRepresentable(QRelop) THEN query.range
                      ELSE IF Skips(QAdjusted, QArrRef, query.range) THEN query.range
                      ELSE Translated(QRelop)
    /\ (Merged /\ QMatches /\ query.a.shape = "ArrLenBound" /\ QRelop = "GT_LT"
           /\ query.a.assertionKind = "OAK_NOT_EQUAL"
           /\ ~Skips(QAdjusted, QArrRef, query.range))
        => query.out.uLimit = LimitV("keBinOpArray", query.a.vnArray, -1)
    /\ (Merged /\ ~QMatches) => query.out = query.range

C26_Witness ==
    /\ Merged /\ QMatches
    /\ query.a.assertionKind = "OAK_EQUAL" /\ query.a.cmpOper = "GT_GE"
    /\ query.a.shape = "ArrLenBound"
    /\ query.range.uLimit = Limit("keUnknown")
    /\ query.out.uLimit = LimitV("keBinOpArray", ArrVN("P"), -1)

\* ------------------------------------------------------------------ *\
\* BetweenBounds applied on its own                                     *
\* ------------------------------------------------------------------ *\

\* Largest constant and largest offset from an array length tried.
MaxCns == 5

BoundsArrays == {"P", "A2", "A5"}

BoundsLimits ==
    {Limit("keUnknown"), Limit("keDependent"), Limit("keUndef"),
     LimitV("keSsaVar", CnsVN("TYP_INT", 1), 0),
     LimitV("keBinOp", CnsVN("TYP_INT", 1), 1)}
    \cup {LimitC(c) : c \in -1 .. MaxCns}
    \cup {LimitV("keArray", ArrVN(v), 0) : v \in BoundsArrays}
    \cup {LimitV("keBinOpArray", ArrVN(v), c) : v \in BoundsArrays, c \in -MaxCns - 1 .. 1}

BoundsRanges == {[lLimit |-> l, uLimit |-> u] : l \in BoundsLimits, u \in BoundsLimits}

\* The value number of the array-length operand: the length of an array,
\* a constant, a constant of another type, or neither.
BoundsUppers ==
    {LenVN(v) : v \in BoundsArrays}
    \cup {CnsVN("TYP_INT", 3), CnsVN("TYP_INT", 0), CnsVN("TYP_LONG", 3), OpqVN("n")}

BoundsQuery(r, upper) ==
    [fn |-> "between", range |-> r, upper |-> upper, done |-> FALSE, out |-> FALSE]

InitBounds ==
    /\ checks = <<>>
    /\ budget0 = MAX_VISIT_BUDGET
    /\ Constructed(budget0)
    /\ run = 1
    /\ mode = "first"
    /\ first = NoFirst
    /\ ex = ExIdle
    /\ query \in {BoundsQuery(r, u) : r \in BoundsRanges, u \in BoundsUppers}

BoundsApply ==
    /\ query.fn = "between"
    /\ ~query.done
    /\ query' = [query EXCEPT !.out = BetweenBounds(query.range, 0, query.upper),
                              !.done = TRUE]
    /\ UNCHANGED <<checks, passVars, budget0, run, mode, first, ex>>

NextBounds == BoundsApply

SpecBounds == InitBounds /\ [][NextBounds]_vars

Decided == query.fn = "between" /\ query.done

\* The array of the bounds check, when its length is an array length.
BArrRef == GetArrForLenVn(query.upper)

\* The statically known size of the array of the check, 0 when unknown.
BArrSize ==
    IF IsVNConstant(query.upper)
    THEN (IF TypeOfVN(query.upper) = "TYP_INT" THEN ConstantValue(query.upper) ELSE 0)
    ELSE GetNewArrSize(BArrRef)

\* The lengths the arrays may have at run time: every array has a length
\* of at least 0, the allocated one when that is known; the array of the
\* check has the length its operand says.
Lengths ==
    {len \in [BoundsArrays \cup {"checked"} -> 0 .. MaxCns] :
        /\ \A v \in BoundsArrays : NewArrSize[v] > 0 => len[v] = NewArrSize[v]
        /\ BArrSize > 0 => len["checked"] = BArrSize
        /\ IsVNArrLen(query.upper) => len["checked"] = len[query.upper.arr]}

\* The value a limit stands for under the lengths len.
Denotes(l, len) ==
    CASE IsConstant(l) -> l.cns
      [] IsArray(l) -> len[l.vn.id]
      [] IsBinOpArray(l) -> len[l.vn.id] + l.cns

\* Every integer of the range is an index of the checked array.
WithinArray(r, len) ==
    \A x \in Denotes(r.lLimit, len) .. Denotes(r.uLimit, len) :
        0 <= x /\ x < len["checked"]

Concrete(l) == IsConstant(l) \/ IsArray(l) \/ IsBinOpArray(l)

\* C27: whenever BetweenBounds answers true, both limits are concrete and,
\* for every array length n >= 0 consistent with the known allocated
\* size, every integer of the range lies in [0, n); it answers false
\* whenever the upper limit is BinOpArray(v, ucns) with ucns >= 0 and
\* whenever a limit is Dependent, Unknown or Undef.
C27_BetweenBoundsSound ==
    /\ (Decided /\ query.out) =>
          /\ Concrete(query.range.lLimit) /\ Concrete(query.range.uLimit)
          /\ \A len \in Lengths : WithinArray(query.range, len)
    /\ (Decided /\ IsBinOpArray(query.range.uLimit) /\ query.range.uLimit.cns >= 0)
          => ~query.out
    /\ (Decided /\ \E l \in {query.range.lLimit, query.range.uLimit} :
                      IsDependent(l) \/ IsUnknown(l) \/ IsUndef(l))
          => ~query.out

C27_Witness ==
    /\ Decided /\ query.out
    /\ query.upper = LenVN("P")
    /\ query.range = [lLimit |-> LimitC(0),
                      uLimit |-> LimitV("keBinOpArray", ArrVN("P"), -1)]

\* The decision table of BetweenBounds: upper limit on the array of the
\* check with a negative offset, or a constant upper limit below the
\* known size.
Table(lo, hi, arrRef, arrSize) ==
    \/ /\ IsBinOpArray(hi) /\ hi.cns < 0 /\ hi.vn = arrRef
       /\ ~IsArray(lo)
       /\ \/ IsConstant(lo) /\ lo.cns >= 0
          \/ /\ arrSize > 0
             /\ IsBinOpArray(lo) /\ lo.vn = arrRef
             /\ lo.cns <= 0 /\ -lo.cns <= arrSize /\ lo.cns <= hi.cns
    \/ /\ IsConstant(hi) /\ 0 <= hi.cns /\ hi.cns < arrSize
       /\ \/ IsConstant(lo) /\ 0 <= lo.cns /\ lo.cns <= hi.cns
          \/ /\ IsBinOpArray(lo) /\ lo.vn = arrRef
             /\ lo.cns <= 0 /\ -lo.cns <= arrSize /\ arrSize + lo.cns <= hi.cns

\* C28: BetweenBounds answers true exactly in the cases of the decision
\* table and false in all others, also when the value number of the
\* array length is neither a constant nor an array length.
C28_DecisionTable ==
    Decided =>
        /\ query.out = (/\ IsVNConstant(query.upper) \/ IsVNArrLen(query.upper)
                        /\ Table(query.range.lLimit, query.range.uLimit, BArrRef, BArrSize))
        /\ (~IsVNConstant(query.upper) /\ ~IsVNArrLen(query.upper)) => ~query.out

C28_Witness ==
    /\ Decided /\ query.out
    /\ query.upper = LenVN("A5")
    /\ query.range = [lLimit |-> LimitV("keBinOpArray", ArrVN("A5"), -5),
                      uLimit |-> LimitC(4)]

\* ------------------------------------------------------------------ *\
\* DoesBinOpOverflow applied on its own                                 *
\* ------------------------------------------------------------------ *\

\* The addition is the index i2 + j2 of method sum, in the block of its
\* bounds check.
AddOp1 == <<"sum", "ui">>

AddOp2 == <<"sum", "uj">>

AddBlock == <<"sum", "B4">>

\* In the place of an upper limit: the operand has no cached range.
Uncached == [type |-> "uncached", vn |-> NoVN, cns |-> 0]

\* The upper limit the range map holds for an operand.
OverflowUppers ==
    {Limit("keUnknown"), Limit("keDependent"), Limit("keUndef"), Uncached}
    \cup {LimitC(c) : c \in {INT_MIN, -1, 0, 1, ARRLEN_MAX}}
    \cup {LimitV("keArray", ArrVN(v), 0) : v \in {"P", "A5"}}
    \cup {LimitV("keBinOpArray", ArrVN(v), c) : v \in {"P", "A5"}, c \in {-1, 0, 1}}
    \cup {LimitV("keSsaVar", CnsVN("TYP_INT", 1), 0), LimitV("keSsaVar", OpqVN("n"), 0),
          LimitV("keSsaVar", CnsVN("TYP_LONG", 1), 0),
          LimitV("keBinOp", CnsVN("TYP_INT", 1), 1),
          LimitV("keBinOp", CnsVN("TYP_INT", ARRLEN_MAX), 1),
          LimitV("keBinOp", OpqVN("n"), 1)}

\* What is known of an operand when the addition is looked at: it is on
\* the search path, or its overflow verdict is cached as yes or no.
OperandStates == {"path", "yes", "no"}

OverflowQuery(u1, u2, o1, o2) ==
    [fn |-> "overflow", u1 |-> u1, u2 |-> u2, o1 |-> o1, o2 |-> o2,
     done |-> FALSE, out |-> TRUE]

InitOverflow ==
    /\ checks = <<>>
    /\ budget0 = MAX_VISIT_BUDGET
    /\ Constructed(budget0)
    /\ run = 1
    /\ mode = "first"
    /\ first = NoFirst
    /\ ex = ExIdle
    /\ query \in {OverflowQuery(u1, u2, o1, o2) :
                      u1 \in OverflowUppers, u2 \in OverflowUppers,
                      o1 \in OperandStates, o2 \in OperandStates}

\* The range map, the overflow map and the path the query describes.
CachedRange(op, u) ==
    IF u = Uncached THEN <<>> ELSE op :> [lLimit |-> LimitC(0), uLimit |-> u]

CachedVerdict(op, o) == IF o = "path" THEN <<>> ELSE op :> (o = "yes")

OverflowState(q) ==
    [St EXCEPT !.chk = "sum",
               !.rmap = CachedRange(AddOp1, q.u1) @@ CachedRange(AddOp2, q.u2),
               !.omap = CachedVerdict(AddOp1, q.o1) @@ CachedVerdict(AddOp2, q.o2),
               !.path = {AddOp1 : x \in {q.o1} \cap {"path"}}
                        \cup {AddOp2 : x \in {q.o2} \cap {"path"}}]

OverflowApply ==
    /\ query.fn = "overflow"
    /\ ~query.done
    /\ query' = [query EXCEPT
                    !.out = DoesBinOpOverflow(OverflowState(query), AddBlock,
                                              AddOp1, AddOp2).r,
                    !.done = TRUE]
    /\ UNCHANGED <<checks, passVars, budget0, run, mode, first, ex>>

NextOverflow == OverflowApply

SpecOverflow == InitOverflow /\ [][NextOverflow]_vars

Answered == query.fn = "overflow" /\ query.done

\* The length an array limit is taken to have: the allocated length when
\* it is known, 2^31 - 1 otherwise.
LengthMax(vn) == IF GetNewArrSize(vn) > 0 THEN GetNewArrSize(vn) ELSE ARRLEN_MAX

\* The maximum of an upper limit: <<defined, value>>.
MaxOf(l) ==
    CASE IsConstant(l) -> <<TRUE, l.cns>>
      [] IsArray(l) -> <<TRUE, LengthMax(l.vn)>>
      [] IsBinOpArray(l) ->
            IF IntAddOverflows(LengthMax(l.vn), l.cns) THEN <<FALSE, 0>>
            ELSE <<TRUE, LengthMax(l.vn) + l.cns>>
      [] l.type = "keSsaVar" /\ IsVNConstant(l.vn) /\ TypeOfVN(l.vn) = "TYP_INT" ->
            <<TRUE, ConstantValue(l.vn)>>
      [] l.type = "keBinOp" /\ IsVNConstant(l.vn) /\ TypeOfVN(l.vn) = "TYP_INT" ->
            IF IntAddOverflows(ConstantValue(l.vn), l.cns) THEN <<FALSE, 0>>
            ELSE <<TRUE, ConstantValue(l.vn) + l.cns>>
      [] OTHER -> <<FALSE, 0>>

\* m1 + m2 <= 2^31 - 1.
SumFits(m1, m2) == m2 <= 0 \/ m1 <= ARRLEN_MAX - m2

\* The upper limit sampled for an operand: a Dependent one is merged with
\* the assertions of the block first.
Sampled(op, u) ==
    IF IsDependent(u)
    THEN MergeAssertion(AddBlock, op, "sum", [lLimit |-> LimitC(0), uLimit |-> u]).uLimit
    ELSE u

\* C29: DoesBinOpOverflow answers false only if neither operand that is
\* not on the search path overflows and the maxima of the two upper
\* limits are defined and add up to at most 2^31 - 1; in every other
\* case it answers true.
C29_AddOverflowRule ==
    (Answered /\ ~query.out) =>
        /\ query.o1 # "yes" /\ query.o2 # "yes"
        /\ query.u1 # Uncached /\ query.u2 # Uncached
        /\ MaxOf(Sampled(AddOp1, query.u1))[1]
        /\ MaxOf(Sampled(AddOp2, query.u2))[1]
        /\ SumFits(MaxOf(Sampled(AddOp1, query.u1))[2],
                   MaxOf(Sampled(AddOp2, query.u2))[2])

C29_Witness ==
    /\ Answered /\ ~query.out
    /\ query.o1 = "path" /\ query.o2 = "no"
    /\ query.u1 = Limit("keDependent")
    /\ query.u2 = LimitC(1)

\* ------------------------------------------------------------------ *\
\* The monotonicity prover applied on its own                           *
\* ------------------------------------------------------------------ *\

\* The names of the trees of a fragment.
NodeNames(d) ==
    CASE d.shape = "k" -> {"u"}
      [] d.shape = "phi" -> {"call", "c0", "c1", "A1", "A2", "P", "u", "k", "add"}
      [] d.shape = "g" -> {"call", "u"}
      [] d.shape = "nest" ->
            {"c0", "Ai1", "Ai3", "Pi", "ui", "ui2", "ki", "addi", "d0", "Aj1", "Aj3",
             "Pj", "uj", "uj2", "kj", "addj", "idx"}
      [] d.shape \in {"loop", "down"} ->
            {"c0", "len", "m1", "A1", "A3", "P", "u", "u2", "k", "k0", "add"}

\* The fragments whose trees the prover is asked about.
MonoFrags == {"f4", "ov", "inc", "dn", "dl", "down", "g", "par", "sum"}

MonoNodes == UNION {{<<f, x>> : x \in NodeNames(DescOf(f))} : f \in MonoFrags}

\* The search path at the call: empty, or holding the phi of a loop.
MonoPaths == {{}, {<<"inc", "P">>}}

MonoQuery(expr, pth) ==
    [fn |-> "mono", expr |-> expr, op1 |-> expr, op2 |-> expr, oper |-> "GT_NONE",
     path |-> pth, done |-> FALSE, out |-> FALSE]

BinOpQuery(op1, op2, oper, pth) ==
    [fn |-> "binop", expr |-> op1, op1 |-> op1, op2 |-> op2, oper |-> oper,
     path |-> pth, done |-> FALSE, out |-> FALSE]

InitMono ==
    /\ checks = <<>>
    /\ budget0 = MAX_VISIT_BUDGET
    /\ Constructed(budget0)
    /\ run = 1
    /\ mode = "first"
    /\ first = NoFirst
    /\ ex = ExIdle
    /\ query \in {MonoQuery(e, pth) : e \in MonoNodes, pth \in MonoPaths}
                  \cup {BinOpQuery(a, b, op, pth) :
                           a \in MonoNodes, b \in MonoNodes,
                           op \in {"GT_ADD", "GT_SUB"}, pth \in MonoPaths}

MonoApply ==
    /\ query.fn = "mono"
    /\ ~query.done
    /\ query' = [query EXCEPT !.out = IsMonotonicallyIncreasing(query.expr, query.path),
                              !.done = TRUE]
    /\ UNCHANGED <<checks, passVars, budget0, run, mode, first, ex>>

BinOpApply ==
    /\ query.fn = "binop"
    /\ ~query.done
    /\ query' = [query EXCEPT
                    !.out = IsBinOpMonotonicallyIncreasing(query.op1, query.op2,
                                                           query.oper, query.path),
                    !.done = TRUE]
    /\ UNCHANGED <<checks, passVars, budget0, run, mode, first, ex>>

NextMono ==
    \/ MonoApply
    \/ BinOpApply

SpecMono == InitMono /\ [][NextMono]_vars

\* a is an SSA local that is monotonic and b is a monotonic SSA local or
\* an integer constant >= 0.
LocalPlus(a, b, pth) ==
    /\ Node(a).oper = "GT_LCL_VAR"
    /\ IsMonotonicallyIncreasing(a, pth)
    /\ \/ Node(b).oper = "GT_LCL_VAR" /\ IsMonotonicallyIncreasing(b, pth)
       \/ Node(b).oper = "GT_CNS_INT" /\ Node(b).icon >= 0

AdditionRule(op1, op2, pth) == LocalPlus(op1, op2, pth) \/ LocalPlus(op2, op1, pth)

\* a is a local and b, the other operand, is a negative constant or an
\* expression that is neither a local nor a constant.
LocalAgainst(a, b) ==
    /\ Node(a).oper = "GT_LCL_VAR"
    /\ Node(b).oper # "GT_LCL_VAR"
    /\ Node(b).oper = "GT_CNS_INT" => Node(b).icon < 0

\* The query asked about an expression that is not decided by the path or
\* by a constant value number.
Examined ==
    /\ query.fn = "mono" /\ query.done
    /\ query.expr \notin query.path
    /\ ~IsVNConstant(Node(query.expr).vn)

\* C30: the prover answers true for an addition, or the addition of a +=
\* definition, only if one operand is an SSA local that is itself
\* monotonic and the other is a monotonic SSA local or an integer
\* constant >= 0; it answers false when the other operand is a negative
\* constant or another kind of expression, for a local without a
\* definition, and for every expression that is not a constant, a local,
\* an addition or a phi.
C30_MonotonicAddition ==
    /\ (query.fn = "binop" /\ query.done /\ query.oper = "GT_ADD" /\ query.out)
          => AdditionRule(query.op1, query.op2, query.path)
    /\ (query.fn = "binop" /\ query.done
           /\ (LocalAgainst(query.op1, query.op2) \/ LocalAgainst(query.op2, query.op1)))
          => ~query.out
    /\ (query.fn = "binop" /\ query.done
           /\ Node(query.op1).oper # "GT_LCL_VAR" /\ Node(query.op2).oper # "GT_LCL_VAR")
          => ~query.out
    /\ (Examined /\ Node(query.expr).oper = "GT_ADD" /\ query.out)
          => AdditionRule(Node(query.expr).op1, Node(query.expr).op2,
                          query.path \cup {query.expr})
    /\ (Examined /\ IsLocal(Node(query.expr))
           /\ GetDef(Node(query.expr).ssa).asg = "none")
          => ~query.out
    /\ (Examined /\ ~IsLocal(Node(query.expr))
           /\ Node(query.expr).oper \notin {"GT_ADD", "GT_PHI"})
          => ~query.out

C30_Witness ==
    /\ query.fn = "binop" /\ query.done /\ query.out
    /\ query.oper = "GT_ADD" /\ query.path = {}
    /\ query.op1 = <<"inc", "k">>
    /\ query.op2 = <<"inc", "u2">>

\* ------------------------------------------------------------------ *\
\* MergeEdgeAssertions applied to a set of assertions                   *
\* ------------------------------------------------------------------ *\

\* Largest number of assertions in the set of an edge.
MaxAssertions == 2

\* Recognised assertions about the local i, each compared with zero:
\* i < c, i >= c, i < v.len, i >= v.len, i < v.len - 1, and
\* (i < P.len) == 0.
EdgeAssertions ==
    {AConstantBound(OpqVN("i"), op, c, "OAK_NOT_EQUAL") :
        op \in {"GT_LT", "GT_GE"}, c \in {0, 5}}
    \cup {AArrLenBound(OpqVN("i"), op, v, "OAK_NOT_EQUAL") :
             op \in {"GT_LT", "GT_GE"}, v \in MergeArrays}
    \cup {AArrLenArithBound(OpqVN("i"), "GT_LT", v, "GT_SUB", CnsVN("TYP_INT", 1),
                            "OAK_NOT_EQUAL") : v \in MergeArrays}
    \cup {AArrLenBound(OpqVN("i"), "GT_LT", "P", "OAK_EQUAL")}

\* The assertions of a bit set in the order of their indices: the
\* sequences of distinct assertions of length 1..n.
RECURSIVE EdgeSets(_)
EdgeSets(n) ==
    IF n = 0 THEN {<<>>}
    ELSE LET shorter == EdgeSets(n - 1)
         IN  shorter \cup
             {Append(q, a) : q \in {r \in shorter : Len(r) = n - 1},
                             a \in EdgeAssertions}

EdgeOrders ==
    {q \in EdgeSets(MaxAssertions) :
        /\ Len(q) >= 1
        /\ \A i, j \in 1..Len(q) : i # j => q[i] # q[j]}

EdgeQuery(q, arrLenVN, r) ==
    [fn |-> "edge", assertions |-> q, lclVn |-> OpqVN("i"), arrLenVN |-> arrLenVN,
     range |-> r, done |-> FALSE, out |-> r]

InitEdge ==
    /\ checks = <<>>
    /\ budget0 = MAX_VISIT_BUDGET
    /\ Constructed(budget0)
    /\ run = 1
    /\ mode = "first"
    /\ first = NoFirst
    /\ ex = ExIdle
    /\ query \in {EdgeQuery(q, n, r) :
                      q \in EdgeOrders, n \in MergeArrLens, r \in MergedInto}

\* The loop of MergeEdgeAssertions over the assertions of the set.
EdgeApply ==
    /\ query.fn = "edge"
    /\ ~query.done
    /\ query' = [query EXCEPT
                    !.out = MergeAssertionsFrom(1, query.assertions, query.lclVn,
                                                query.arrLenVN, query.range),
                    !.done = TRUE]
    /\ UNCHANGED <<checks, passVars, budget0, run, mode, first, ex>>

NextEdge == EdgeApply

SpecEdge == InitEdge /\ [][NextEdge]_vars

\* The orders in which the assertions of the sequence q can be iterated.
Orders(q) ==
    {[i \in 1..Len(q) |-> q[p[i]]] :
        p \in {f \in [1..Len(q) -> 1..Len(q)] :
                  \A i, j \in 1..Len(q) : i # j => f[i] # f[j]}}

\* C31: the range after merging the assertions of an edge is the same
\* for every order in which the assertions are iterated.
C31_OrderIndependent ==
    (query.fn = "edge" /\ query.done) =>
        \A q \in Orders(query.assertions) :
            MergeAssertionsFrom(1, q, query.lclVn, query.arrLenVN, query.range)
                = query.out

\* ------------------------------------------------------------------ *\
\* The range of a removed check                                         *
\* ------------------------------------------------------------------ *\

\* A limit the decision can work with: a constant or a.len + cns.
ResolvedLimit(l) == IsConstant(l) \/ IsBinOpArray(l)

ResolvedRange(r) == ResolvedLimit(r.lLimit) /\ ResolvedLimit(r.uLimit)

\* The check went through the full decision procedure.
FullyDecided(t) == \E i \in DOMAIN t : t[i] = "bounds-decide"

\* The check was processed by this pass instance, its range was computed
\* and its final range has an endpoint that is not resolved.
LeftUnresolved(c) ==
    /\ c \in DOMAIN log
    /\ \E i \in DOMAIN log[c].trail : log[c].trail[i] = "range-compute"
    /\ ~ResolvedRange(log[c].range)

\* C32: a check removed by the full decision procedure has a range whose
\* lower limit and upper limit are each Constant or BinOpArray; for the
\* check being decided BetweenBounds accepts no range with a Dependent,
\* Unknown, Undef, Array, SsaVar or BinOp endpoint; and a check whose
\* final range has such an endpoint is kept, a Dependent left after a
\* failed or skipped widening included.
C32_RemovalNeedsResolvedRange ==
    /\ (pc = "remove" /\ FullyDecided(trail)) => ResolvedRange(range)
    /\ pc = "bounds-decide" =>
          \A r \in BoundsRanges \cup {range} :
              BetweenBounds(r, 0, CurChk.gtArrLen) => ResolvedRange(r)
    /\ \A c \in DOMAIN log :
          /\ (c \in removed /\ FullyDecided(log[c].trail)) => ResolvedRange(log[c].range)
          /\ LeftUnresolved(c) =>
                (c \notin removed /\ log[c].trail[Len(log[c].trail)] = "keep")

\* The decreasing loop dn was kept with a Dependent limit after the
\* widening was skipped, and the increasing loop inc is being removed.
C32_Witness ==
    /\ pc = "remove" /\ FullyDecided(trail) /\ m_pCurBndsChk = "inc"
    /\ ResolvedRange(range)
    /\ LeftUnresolved("dn")
    /\ log["dn"].seen.reran = "no"
    /\ log["dn"].seen.between = "no"
    /\ IsDependent(log["dn"].range.lLimit) \/ IsDependent(log["dn"].range.uLimit)
====
